---- MODULE Spec2Model ----
(***************************************************************************)
(* A model of the CartoType geometry kernel:                               *)
(*   - TContour::Traverse and MPath::Traverse (cartotype_path.h), as a     *)
(*     step machine over the positions of the traversal loops, recording   *)
(*     every call made on the traverser;                                   *)
(*   - TFixed multiplication and division (cartotype_arithmetic.h), with   *)
(*     their 64-bit intermediates computed on 16-bit limbs, and the        *)
(*     rounding, splitting, negation and addition of TFixed;               *)
(*   - the length cache of TLineFixed (cartotype_arithmetic.h);            *)
(*   - the point buffers of the CContour objects of a COutline and the     *)
(*     TContour views that refer to them (cartotype_path.h);               *)
(*   - CGeneralGeometry, the conversion of its coordinates and its        *)
(*     conversion from a path and to a COutline (cartotype_geometry.h);    *)
(*   - TTransformFP::Transform on doubles (cartotype_transform.h);         *)
(*   - the cache of TDataInputStream and its inline reading functions      *)
(*     (cartotype_stream.h).                                               *)
(***************************************************************************)
EXTENDS Integers, Sequences, FiniteSets, TLC

VARIABLES
    call,       \* the call under study: function, path and clip argument
    pc,         \* position in the traversal code
    frames,     \* active MPath::Traverse loops, innermost first
    cur,        \* the contour (*this) of the active TContour::Traverse
    aClip,      \* the aClip argument of the active TContour::Traverse
    clipType,   \* what ClipType(*aClip) returned in the active call
    point,      \* index of `point` into cur's points (-1: one before)
    limit,      \* index of `limit`
    v_start,    \* start point of the contour's output
    v_last,     \* last point, compared with v_start when closing
    v_control,  \* index of the point `v_control` points to
    out,        \* the calls made on the traverser, in order
    deref,      \* indices of the points the active TContour::Traverse read
    fa,         \* TFixed: the first operand a (raw value)
    fb,         \* TFixed: the second operand b (raw value)
    fv,         \* TFixed: iValue of the object being operated on
    fops,       \* TFixed: the operators applied to the object so far
    fint,       \* TFixed: what the const functions returned for iValue
    flines,     \* TLineFixed: the line objects, in order of creation
    own,        \* COutline: the owner of the contours and their buffers
    views,      \* TContour: the views obtained from the owner, and reads
    geom,       \* CGeneralGeometry: the members of the geometry object
    conv,       \* CGeneralGeometry: the last ConvertCoords call made
    outl,       \* CGeneralGeometry: the COutline the geometry was turned into
    tfm,        \* TTransformFP: the transform and the point it is applied to
    stream      \* TDataInputStream: the members of the stream, and last call

vars == <<call, pc, frames, cur, aClip, clipType, point, limit, v_start,
          v_last, v_control, out, deref, fa, fb, fv, fops, fint, flines,
          own, views, geom, conv, outl, tfm, stream>>

travVars == <<call, pc, frames, cur, aClip, clipType, point, limit, v_start,
              v_last, v_control, out, deref>>

fixedVars == <<fa, fb, fv, fops, fint>>

\* The variables the traversal leaves alone, and those TFixed leaves alone.
lineVars == <<flines>>

ownVars == <<own, views>>

geomVars == <<geom, conv, outl>>

tfmVars == <<tfm>>

streamVars == <<stream>>

nonTravVars == <<fixedVars, lineVars, ownVars, geomVars, tfmVars, streamVars>>

nonFixedVars == <<travVars, lineVars, ownVars, geomVars, tfmVars, streamVars>>

nonLineVars == <<travVars, fixedVars, ownVars, geomVars, tfmVars, streamVars>>

nonOwnVars == <<travVars, fixedVars, lineVars, geomVars, tfmVars, streamVars>>

nonGeomVars == <<travVars, fixedVars, lineVars, ownVars, tfmVars, streamVars>>

nonTfmVars == <<travVars, fixedVars, lineVars, ownVars, geomVars, streamVars>>

nonStreamVars == <<travVars, fixedVars, lineVars, ownVars, geomVars, tfmVars>>

-----------------------------------------------------------------------------
(* Bounds of the model. *)

MaxPoints == 4
MaxContours == 2
MaxClipContours == 1
MaxLivePoints == 3
MaxSmallRaw == 3
MaxHalves == 5
MaxFixedOps == 2
MaxLineCoord == 3
MaxLines == 2
MaxLengthCalls == 2
MaxOwnerPoints == 2
MaxOwnerContours == 1
MaxOwnerOps == 3
MaxViews == 1
MaxGeomPoints == 2
MaxGeomContours == 3
MaxCopyPoints == 2
MaxCopyContours == 2
MaxTransformCalls == 2
MaxCachedBytes == 6
MaxReadBytes == 3

-----------------------------------------------------------------------------
(* 32-bit integers. *)

MaxInt32 == 2147483647
MinInt32 == -2147483647 - 1

\* C++ integer division by two: the quotient is truncated toward zero.
TruncHalf(s) ==
    IF s >= 0 THEN s \div 2
    ELSE IF s = MinInt32 THEN -1073741824
    ELSE -((-s) \div 2)

\* a + b does not fit in an int32_t.
AddOverflows(a, b) ==
    \/ a > 0 /\ b > MaxInt32 - a
    \/ a < 0 /\ b < MinInt32 - a

\* The sum a + b reduced modulo 2^32 into the int32_t range, for a sum that
\* does not fit.
WrappedSum(a, b) ==
    IF a > 0 THEN (a + MinInt32) + (b + MinInt32)
    ELSE (a + MaxInt32 + 1) + (b + MaxInt32 + 1)

\* (a + b) / 2 computed without loss, for a sum that does not fit.
WideHalf(a, b) ==
    IF a > 0
    THEN (a \div 2) + (b \div 2) + (((a % 2) + (b % 2)) \div 2)
    ELSE LET a1 == -(a + 1)
             b1 == -(b + 1)
         IN  -(1 + (a1 \div 2) + (b1 \div 2) + (((a1 % 2) + (b1 % 2)) \div 2))

\* The values (a + b) / 2 can take on int32_t operands.  A sum that overflows
\* is undefined behaviour: the build either wraps it around or keeps it in a
\* wider register.
HalfSum(a, b) ==
    IF AddOverflows(a, b)
    THEN {TruncHalf(WrappedSum(a, b)), WideHalf(a, b)}
    ELSE {TruncHalf(a + b)}

-----------------------------------------------------------------------------
(* Points, contours and paths. *)

TPointType == {"OnCurve", "Quadratic", "Cubic"}

TClipType == {"Inside", "MayIntersectAndHasNoCurves", "MayIntersectAndHasCurves"}

\* A TOutlinePoint.
OutlinePoint(x, y, t) == [x |-> x, y |-> y, t |-> t]

\* The TPoint part of a TOutlinePoint.
Pt(op) == <<op.x, op.y>>

NoPoint == <<>>

\* A contour: its points and its closed flag.
Contour(pts, closed) == [pts |-> pts, closed |-> closed]

NoContour == Contour(<<>>, FALSE)

\* TContour::Points.
Points(c) == Len(c.pts)

\* iPoint[i], with the index counted from 0 as in the code.
PointAt(c, i) == c.pts[i + 1]

\* The midpoints (p + q) / 2 taken coordinate by coordinate.
Midpoints(p, q) ==
    {<<mx, my>> : mx \in HalfSum(p[1], q[1]), my \in HalfSum(p[2], q[2])}

-----------------------------------------------------------------------------
(* The calls on the traverser.  k is the index of the contour of the called *)
(* path that caused the call and d is 1 when the call comes from the        *)
(* traversal of a clipped outline, 0 otherwise.                             *)

Prim(op, c1, c2, p) ==
    [op |-> op, c1 |-> c1, c2 |-> c2, p |-> p,
     k |-> IF frames # <<>> /\ ~frames[Len(frames)].nested
           THEN frames[Len(frames)].i ELSE 0,
     d |-> IF frames # <<>> /\ frames[1].nested THEN 1 ELSE 0]

MoveTo(p) == Prim("MoveTo", NoPoint, NoPoint, p)
LineTo(p) == Prim("LineTo", NoPoint, NoPoint, p)
QuadraticTo(c, p) == Prim("QuadraticTo", c, NoPoint, p)
CubicTo(c1, c2, p) == Prim("CubicTo", c1, c2, p)

-----------------------------------------------------------------------------
(* The inputs of the model. *)

CoordPts == {<<-3, 1>>, <<0, 4>>, <<MaxInt32, MaxInt32>>}

OutlinePoints == {OutlinePoint(p[1], p[2], t) : p \in CoordPts, t \in TPointType}

SeqsUpTo(S, n) == UNION {[1..m -> S] : m \in 0..n}

\* A contour cannot start with a cubic control point (the assertion of
\* TContour::Traverse, which is reached by contours of two points or more).
StartsLegally(c) == Points(c) < 2 \/ PointAt(c, 0).t # "Cubic"

ContoursUpTo(n) ==
    {c \in {Contour(pts, closed) : pts \in SeqsUpTo(OutlinePoints, n), closed \in BOOLEAN} :
        StartsLegally(c)}

A0 == OutlinePoint(-3, 1, "OnCurve")
B0 == OutlinePoint(0, 4, "OnCurve")
QA == OutlinePoint(-3, 1, "Quadratic")
QB == OutlinePoint(0, 4, "Quadratic")
CA == OutlinePoint(-3, 1, "Cubic")
CB == OutlinePoint(0, 4, "Cubic")

\* The contours the paths of several contours are made of.
PathContours ==
    { Contour(<<A0, B0>>, TRUE),
      Contour(<<QA, B0, QB>>, FALSE),
      Contour(<<B0, CA, CB, A0>>, TRUE),
      Contour(<<A0>>, FALSE) }

\* The contours the clipped outlines are made of.
ClipContours ==
    { Contour(<<B0, A0, B0>>, TRUE),
      Contour(<<A0, QB>>, FALSE) }

\* The outlines ClippedContour may return.
ClipResults == SeqsUpTo(ClipContours, MaxClipContours)

ClipArgs == {"null", "maximal", "rect"}

Calls(n) ==
         {[fn |-> "TContour::Traverse", path |-> <<c>>, clip |-> "null"] :
             c \in ContoursUpTo(n)}
    \cup {[fn |-> "TContour::Traverse", path |-> <<c>>, clip |-> a] :
             c \in PathContours, a \in ClipArgs}
    \cup {[fn |-> "MPath::Traverse*", path |-> p, clip |-> a] :
             p \in SeqsUpTo(PathContours, MaxContours), a \in ClipArgs}
    \cup {[fn |-> "MPath::Traverse&", path |-> p, clip |-> a] :
             p \in SeqsUpTo(PathContours, MaxContours), a \in {"maximal", "rect"}}

-----------------------------------------------------------------------------
(* The state before the call. *)

TravIdle ==
    /\ pc = "idle"
    /\ frames = <<>>
    /\ cur = NoContour
    /\ aClip = "null"
    /\ clipType = "NotEvaluated"
    /\ point = 0
    /\ limit = 0
    /\ v_start = NoPoint
    /\ v_last = NoPoint
    /\ v_control = 0
    /\ out = <<>>
    /\ deref = {}

\* No const function of the TFixed object has been called: each of the
\* results is <<>>, and <<r>> once the function has returned r.
NoResults ==
    [IntegerPart |-> <<>>, FractionalPart |-> <<>>, Floor |-> <<>>,
     Ceiling |-> <<>>, Rounded |-> <<>>]

FixedIdle ==
    /\ fa = 0
    /\ fb = 0
    /\ fv = 0
    /\ fops = <<>>
    /\ fint = NoResults

\* No TLineFixed has been constructed.
LineIdle == flines = <<>>

\* No COutline has been constructed.
NoOwner ==
    [alive |-> FALSE, contours |-> <<>>, fresh |-> 1, clears |-> 0, nops |-> 0]

OwnIdle == own = NoOwner /\ views = <<>>

\* No ConvertCoords call has been made.
NoConvert == [called |-> FALSE]

\* No CGeneralGeometry has been constructed.
NoGeometry == [constructed |-> FALSE]

\* The geometry has not been turned into a COutline.
NoOutline == [made |-> FALSE]

GeomIdle == geom = NoGeometry /\ conv = NoConvert /\ outl = NoOutline

\* No TTransformFP has been constructed.
NoTransform == [made |-> FALSE]

TfmIdle == tfm = NoTransform

\* No TDataInputStream has been constructed.
NoStream == [made |-> FALSE]

StreamIdle == stream = NoStream

Init ==
    /\ call \in Calls(MaxPoints)
    /\ TravIdle
    /\ FixedIdle
    /\ LineIdle
    /\ OwnIdle
    /\ GeomIdle
    /\ TfmIdle
    /\ StreamIdle

InitLive ==
    /\ call \in Calls(MaxLivePoints)
    /\ TravIdle
    /\ FixedIdle
    /\ LineIdle
    /\ OwnIdle
    /\ GeomIdle
    /\ TfmIdle
    /\ StreamIdle

-----------------------------------------------------------------------------
(* MPath::Traverse. *)

Frame(p, i, clip, nested) == [p |-> p, i |-> i, clip |-> clip, nested |-> nested]

\* TRect::IsMaximal of the clip argument.
IsMaximal(a) == a = "maximal"

\* MPath::Traverse(aTraverser,const TRect* aClip): a maximal rectangle is
\* replaced by no rectangle, then the loop over the contours starts.
PathTraversePtr ==
    /\ pc = "idle"
    /\ call.fn = "MPath::Traverse*"
    /\ frames' = <<Frame(call.path, 0,
                         IF call.clip # "null" /\ IsMaximal(call.clip)
                         THEN "null" ELSE call.clip, FALSE)>>
    /\ pc' = "path_loop"
    /\ UNCHANGED <<call, cur, aClip, clipType, point, limit, v_start, v_last,
                   v_control, out>>
    /\ UNCHANGED deref
    /\ UNCHANGED nonTravVars

\* MPath::Traverse(aTraverser,const TRect& aClip).
PathTraverseRef ==
    /\ pc = "idle"
    /\ call.fn = "MPath::Traverse&"
    /\ frames' = <<Frame(call.path, 0,
                         IF IsMaximal(call.clip) THEN "null" ELSE call.clip,
                         FALSE)>>
    /\ pc' = "path_loop"
    /\ UNCHANGED <<call, cur, aClip, clipType, point, limit, v_start, v_last,
                   v_control, out>>
    /\ UNCHANGED deref
    /\ UNCHANGED nonTravVars

\* One test of the loop over the contours: GetContour(i,c) and the call of
\* c.Traverse while i < n.
PathLoopCall ==
    /\ pc = "path_loop"
    /\ frames[1].i < Len(frames[1].p)
    /\ cur' = frames[1].p[frames[1].i + 1]
    /\ aClip' = frames[1].clip
    /\ pc' = "entry"
    /\ UNCHANGED <<call, frames, clipType, point, limit, v_start, v_last,
                   v_control, out>>
    /\ deref' = {}
    /\ UNCHANGED nonTravVars

\* The loop over the contours ends and MPath::Traverse returns: to the caller
\* of the model's call, or into the TContour::Traverse that traversed its
\* clipped outline, which returns in turn.
PathLoopExit ==
    /\ pc = "path_loop"
    /\ frames[1].i >= Len(frames[1].p)
    /\ frames' = Tail(frames)
    /\ pc' = IF frames[1].nested THEN "ret" ELSE "done"
    /\ UNCHANGED <<call, cur, aClip, clipType, point, limit, v_start, v_last,
                   v_control, out>>
    /\ UNCHANGED deref
    /\ UNCHANGED nonTravVars

\* The i++ of the loop over the contours.
NextIndexSkipping(i) == i + 2

NextIndex(i) == i + 1

\* TContour::Traverse returns: the calling loop goes on with i++, or the
\* model's call is over.
ContourReturn ==
    /\ pc = "ret"
    /\ IF frames = <<>>
       THEN /\ pc' = "done"
            /\ frames' = frames
       ELSE /\ pc' = "path_loop"
            /\ frames' = <<[frames[1] EXCEPT !.i = NextIndex(@)]>> \o Tail(frames)
    /\ UNCHANGED <<call, cur, aClip, clipType, point, limit, v_start, v_last,
                   v_control, out>>
    /\ UNCHANGED deref
    /\ UNCHANGED nonTravVars

-----------------------------------------------------------------------------
(* TContour::Traverse. *)

\* The model's call is a direct call of TContour::Traverse.
ContourTraverse ==
    /\ pc = "idle"
    /\ call.fn = "TContour::Traverse"
    /\ cur' = call.path[1]
    /\ aClip' = call.clip
    /\ pc' = "entry"
    /\ UNCHANGED <<call, frames, clipType, point, limit, v_start, v_last,
                   v_control, out>>
    /\ deref' = {}
    /\ UNCHANGED nonTravVars

\* The test of the first line: iPoints < 2.
TooFewOnlyEmpty(c) == Points(c) < 1

TooFew(c) == Points(c) < 2

\* if (iPoints < 2) return;
EntryTooFew ==
    /\ pc = "entry"
    /\ TooFew(cur)
    /\ pc' = "ret"
    /\ UNCHANGED <<call, frames, cur, aClip, clipType, point, limit, v_start,
                   v_last, v_control, out>>
    /\ UNCHANGED deref
    /\ UNCHANGED nonTravVars

\* aClip && !aClip->IsMaximal() && ClipType(*aClip) != TClipType::Inside,
\* where ct is what ClipType returns when it is called.
NeedsClipAlways(a, ct) == a # "null"

NeedsClip(a, ct) == a # "null" /\ ~IsMaximal(a) /\ ct # "Inside"

\* ClipType is called only when the first two conditions hold; it returns one
\* of the three clip types.
ClipTypeResults(a) ==
    IF a # "null" /\ ~IsMaximal(a) THEN TClipType ELSE {"NotEvaluated"}

\* The clip argument the clipped outline is traversed with:
\* clipped_contour.Traverse(aTraverser) passes none.
ClippedTraverseClip(a) == "null"

\* The contour is clipped and the clipped outline is traversed in its place.
EntryClip ==
    /\ pc = "entry"
    /\ ~TooFew(cur)
    /\ PointAt(cur, 0).t # "Cubic"
    /\ \E ct \in ClipTypeResults(aClip), clipped_contour \in ClipResults :
          /\ NeedsClip(aClip, ct)
          /\ clipType' = ct
          /\ frames' = <<Frame(clipped_contour, 0, ClippedTraverseClip(aClip), TRUE)>>
                       \o frames
    /\ pc' = "path_loop"
    /\ UNCHANGED <<call, cur, aClip, point, limit, v_start, v_last, v_control,
                   out>>
    /\ deref' = deref \cup {0}
    /\ UNCHANGED nonTravVars

\* The start point of the output, the limit of the loop and the position
\* before the first point to handle (lines 528-556); m is the value computed
\* for the middle of the first and last points.
StartState(c, m) ==
    LET last == Points(c) - 1
        first == PointAt(c, 0)
    IN  IF first.t = "Quadratic"
        THEN IF PointAt(c, last).t = "OnCurve"
             THEN [limit |-> last - 1, v_start |-> Pt(PointAt(c, last)),
                   v_last |-> Pt(PointAt(c, last)), point |-> -1]
             ELSE [limit |-> last, v_start |-> m, v_last |-> m, point |-> -1]
        ELSE [limit |-> last, v_start |-> Pt(first),
              v_last |-> Pt(PointAt(c, last)), point |-> 0]

\* The indices read to work out the start: iPoint[0] and iPoint[last].
StartReads(c) == {0, Points(c) - 1}

\* The contour is traversed as it is: the start is worked out and MoveTo is
\* called.
EntryStart ==
    /\ pc = "entry"
    /\ ~TooFew(cur)
    /\ PointAt(cur, 0).t # "Cubic"
    /\ \E ct \in ClipTypeResults(aClip) :
          /\ ~NeedsClip(aClip, ct)
          /\ clipType' = ct
    /\ \E m \in Midpoints(Pt(PointAt(cur, 0)), Pt(PointAt(cur, Points(cur) - 1))) :
          LET s == StartState(cur, m)
          IN  /\ limit' = s.limit
              /\ v_start' = s.v_start
              /\ v_last' = s.v_last
              /\ point' = s.point
              /\ out' = Append(out, MoveTo(s.v_start))
    /\ pc' = "loop"
    /\ UNCHANGED <<call, frames, cur, aClip, v_control>>
    /\ deref' = deref \cup StartReads(cur)
    /\ UNCHANGED nonTravVars

\* v_last != v_start, with iClosed: the contour is closed with a line.
NeedsClosingWhenClosed(c, vs, vl) == c.closed

NeedsClosing(c, vs, vl) == c.closed /\ vl # vs

\* point++ (and tags with it).
StayAt(p) == p

Advance(p) == p + 1

\* The outer loop has reached the limit (lines 560, 606-609): the contour is
\* closed by a line when it has to be, and the function returns.
LoopExit ==
    /\ pc = "loop"
    /\ ~(point < limit)
    /\ out' = IF NeedsClosing(cur, v_start, v_last)
              THEN Append(out, LineTo(v_start))
              ELSE out
    /\ pc' = "ret"
    /\ UNCHANGED <<call, frames, cur, aClip, clipType, point, limit, v_start,
                   v_last, v_control>>
    /\ UNCHANGED deref
    /\ UNCHANGED nonTravVars

\* case TPointType::OnCurve of the outer loop.
LineStep ==
    /\ pc = "loop"
    /\ point < limit
    /\ PointAt(cur, Advance(point)).t = "OnCurve"
    /\ point' = Advance(point)
    /\ out' = Append(out, LineTo(Pt(PointAt(cur, point'))))
    /\ UNCHANGED <<call, pc, frames, cur, aClip, clipType, limit, v_start,
                   v_last, v_control>>
    /\ deref' = deref \cup {point'}
    /\ UNCHANGED nonTravVars

\* case TPointType::Quadratic of the outer loop: the point becomes the
\* control point and the inner loop is entered.
QuadEnter ==
    /\ pc = "loop"
    /\ point < limit
    /\ PointAt(cur, Advance(point)).t = "Quadratic"
    /\ point' = Advance(point)
    /\ v_control' = point'
    /\ pc' = "quad"
    /\ UNCHANGED <<call, frames, cur, aClip, clipType, limit, v_start, v_last,
                   out>>
    /\ deref' = deref \cup {point'}
    /\ UNCHANGED nonTravVars

\* The indices read by one pass of the inner loop or by the code after it:
\* the point after p, and v_control when a curve is emitted.
QuadReads(c, p, lim, control) ==
    IF p < lim
    THEN IF PointAt(c, Advance(p)).t \in {"OnCurve", "Quadratic"}
         THEN {Advance(p), control}
         ELSE {Advance(p)}
    ELSE {control}

\* One test of the inner loop while (point < limit) and its body, or the
\* code after the loop (lines 571-587).
QuadStep ==
    /\ pc = "quad"
    /\ IF point < limit
       THEN LET cur_point == Advance(point)
            IN  /\ point' = cur_point
                /\ IF PointAt(cur, cur_point).t = "OnCurve"
                   THEN /\ out' = Append(out, QuadraticTo(Pt(PointAt(cur, v_control)),
                                                         Pt(PointAt(cur, cur_point))))
                        /\ UNCHANGED <<pc, v_control>>
                   ELSE IF PointAt(cur, cur_point).t # "Quadratic"
                   THEN /\ pc' = "ret"
                        /\ UNCHANGED <<out, v_control>>
                   ELSE /\ \E v_middle \in Midpoints(Pt(PointAt(cur, v_control)),
                                                     Pt(PointAt(cur, cur_point))) :
                              out' = Append(out, QuadraticTo(Pt(PointAt(cur, v_control)),
                                                             v_middle))
                        /\ v_control' = cur_point
                        /\ UNCHANGED pc
       ELSE /\ out' = Append(out, QuadraticTo(Pt(PointAt(cur, v_control)), v_start))
            /\ pc' = "ret"
            /\ UNCHANGED <<point, v_control>>
    /\ UNCHANGED <<call, frames, cur, aClip, clipType, limit, v_start, v_last>>
    /\ deref' = deref \cup QuadReads(cur, point, limit, v_control)
    /\ UNCHANGED nonTravVars

\* The indices read by the cubic step at the point p: p itself, the second
\* control point when it is not beyond the limit, and the end point when it
\* is not beyond the limit either; and a step that reads all three.
CubicReadsThree(p, lim) == {p, p + 1, p + 2}

CubicReads(p, lim) ==
    IF p + 1 > lim THEN {p}
    ELSE IF p + 2 <= lim THEN {p, p + 1, p + 2}
         ELSE {p, p + 1}

\* The default case of the outer loop, for a cubic control point
\* (lines 589-602).
CubicStep ==
    /\ pc = "loop"
    /\ point < limit
    /\ PointAt(cur, Advance(point)).t \notin {"OnCurve", "Quadratic"}
    /\ LET p == Advance(point)
       IN  IF p + 1 > limit \/ PointAt(cur, p).t # "Cubic"
           THEN /\ point' = p
                /\ pc' = "ret"
                /\ UNCHANGED out
           ELSE LET vec1 == p
                    vec2 == p + 1
                    q == p + 2
                IN  /\ point' = q
                    /\ IF q <= limit
                       THEN /\ out' = Append(out, CubicTo(Pt(PointAt(cur, vec1)),
                                                         Pt(PointAt(cur, vec2)),
                                                         Pt(PointAt(cur, q))))
                            /\ UNCHANGED pc
                       ELSE /\ out' = Append(out, CubicTo(Pt(PointAt(cur, vec1)),
                                                         Pt(PointAt(cur, vec2)),
                                                         v_start))
                            /\ pc' = "ret"
    /\ UNCHANGED <<call, frames, cur, aClip, clipType, limit, v_start, v_last,
                   v_control>>
    /\ deref' = deref \cup CubicReads(Advance(point), limit)
    /\ UNCHANGED nonTravVars

-----------------------------------------------------------------------------
(* 64-bit arithmetic.  A magnitude is held in four 16-bit limbs, least      *)
(* significant first, and an int64_t value as a sign and a magnitude, so    *)
(* that no intermediate of the evaluation exceeds 32 bits.                  *)

Base == 65536

Pow2(n) == 2 ^ n

\* The product of two numbers of 0..65536, as <<low limb, rest>>.
Mul16(a, b) ==
    LET t1 == a * (b % 256)
        t2 == a * (b \div 256)
        low == (t2 % 256) * 256 + t1
    IN  <<low % Base, (t2 \div 256) + (low \div Base)>>

LZero == <<0, 0, 0, 0>>

\* The magnitude of an int32_t.
LMag(v) ==
    IF v = MinInt32 THEN <<0, 32768, 0, 0>>
    ELSE LET m == IF v < 0 THEN -v ELSE v
         IN  <<m % Base, m \div Base, 0, 0>>

\* The product of two magnitudes of at most 2^31.
LMul(x, y) ==
    LET p00 == Mul16(x[1], y[1])
        p01 == Mul16(x[1], y[2])
        p10 == Mul16(x[2], y[1])
        p11 == Mul16(x[2], y[2])
        s1 == p00[2] + p01[1] + p10[1]
        s2 == p01[2] + p10[2] + p11[1] + (s1 \div Base)
    IN  <<p00[1], s1 % Base, s2 % Base, p11[2] + (s2 \div Base)>>

LAdd(x, y) ==
    LET s1 == x[1] + y[1]
        s2 == x[2] + y[2] + (s1 \div Base)
        s3 == x[3] + y[3] + (s2 \div Base)
        s4 == x[4] + y[4] + (s3 \div Base)
    IN  <<s1 % Base, s2 % Base, s3 % Base, s4 % Base>>

\* x - y for x >= y.
LSub(x, y) ==
    LET d1 == x[1] - y[1]
        b1 == IF d1 < 0 THEN 1 ELSE 0
        d2 == x[2] - y[2] - b1
        b2 == IF d2 < 0 THEN 1 ELSE 0
        d3 == x[3] - y[3] - b2
        b3 == IF d3 < 0 THEN 1 ELSE 0
        d4 == x[4] - y[4] - b3
    IN  <<d1 + b1 * Base, d2 + b2 * Base, d3 + b3 * Base, d4>>

LGeq(x, y) ==
    IF x[4] # y[4] THEN x[4] > y[4]
    ELSE IF x[3] # y[3] THEN x[3] > y[3]
    ELSE IF x[2] # y[2] THEN x[2] > y[2]
    ELSE x[1] >= y[1]

LShl16(x) == <<0, x[1], x[2], x[3]>>

LShr16(x) == <<x[2], x[3], x[4], 0>>

\* The quotient of the magnitude x by d = dm1 + 1, bit by bit from bit i
\* down, rem being the remainder so far and q the quotient so far.
RECURSIVE DivBits(_, _, _, _, _)
DivBits(x, dm1, i, rem, q) ==
    IF i < 0 THEN q
    ELSE LET bit == (x[(i \div 16) + 1] \div Pow2(i % 16)) % 2
             diff == rem - (dm1 - rem)
         IN  IF diff >= 1 - bit
             THEN DivBits(x, dm1, i - 1, diff + bit - 1,
                          [q EXCEPT ![(i \div 16) + 1] = @ + Pow2(i % 16)])
             ELSE DivBits(x, dm1, i - 1, 2 * rem + bit, q)

LDiv(x, dm1) == DivBits(x, dm1, 63, 0, LZero)

\* An int64_t value.
Wide(neg, mag) == [neg |-> neg /\ mag # LZero, mag |-> mag]

WFromInt32(v) == Wide(v < 0, LMag(v))

WNeg(a) == Wide(~a.neg, a.mag)

WAdd(a, b) ==
    IF a.neg = b.neg THEN Wide(a.neg, LAdd(a.mag, b.mag))
    ELSE IF LGeq(a.mag, b.mag) THEN Wide(a.neg, LSub(a.mag, b.mag))
    ELSE Wide(b.neg, LSub(b.mag, a.mag))

WMul(a, b) == Wide(a.neg # b.neg, LMul(a.mag, b.mag))

\* a << 16.
WShl16(a) == Wide(a.neg, LShl16(a.mag))

\* a >> 16, an arithmetic shift: the quotient by 65536 rounded down.
WShr16(a) ==
    IF a.neg /\ a.mag[1] > 0
    THEN Wide(TRUE, LAdd(LShr16(a.mag), <<1, 0, 0, 0>>))
    ELSE Wide(a.neg, LShr16(a.mag))

\* a / b as C++ divides: the quotient truncated toward zero; b is not 0 and
\* its magnitude is at most 2^31.
WDiv(a, b) ==
    LET dm1 == IF b.mag[2] = 32768 THEN MaxInt32
               ELSE b.mag[2] * Base + b.mag[1] - 1
    IN  Wide(a.neg # b.neg, LDiv(a.mag, dm1))

\* int32_t(a) and (int32_t)(uint32_t)a: the low 32 bits in two's complement.
WToInt32(a) ==
    LET lo == IF a.neg THEN (Base - a.mag[1]) % Base ELSE a.mag[1]
        hi == IF a.neg
              THEN (Base - a.mag[2] - (IF a.mag[1] = 0 THEN 0 ELSE 1)) % Base
              ELSE a.mag[2]
    IN  IF hi >= 32768 THEN (hi - Base) * Base + lo ELSE hi * Base + lo

-----------------------------------------------------------------------------
(* TFixed. *)

\* The value int64_t(iValue) has after iValue = -iValue, for iValue < 0.
\* Negating the most negative value overflows, which is undefined behaviour:
\* the build either wraps it around, leaving it negative, or keeps the
\* positive value in a wider register.
Negated(v) ==
    IF v = MinInt32
    THEN {Wide(TRUE, LMag(v)), Wide(FALSE, LMag(v))}
    ELSE {Wide(FALSE, LMag(v))}

\* The operand as it is used in the computation: negated when negative.
Operand(v) == IF v < 0 THEN Negated(v) ELSE {WFromInt32(v)}

\* The sign s of the result, worked out from the signs of the operands.
SignOfDivisor(a, b) == IF b < 0 THEN -1 ELSE 1

Sign(a, b) ==
    LET s == IF a < 0 THEN -1 ELSE 1
    IN  IF b < 0 THEN -s ELSE s

\* -(int32_t)q; negating the most negative value leaves it unchanged in the
\* 32 bits that are stored.
Neg32Saturating(v) == IF v = MinInt32 THEN MaxInt32 ELSE -v

Neg32(v) == IF v = MinInt32 THEN MinInt32 ELSE -v

\* The bias added before the shift of the product: none, and one half.
NoRoundingBias == <<0, 0, 0, 0>>

RoundingBias == <<32768, 0, 0, 0>>

\* TFixed::operator*=(TFixed aB): the values iValue can have afterwards.
MulAssign(iValue, aB) ==
    IF iValue = 0 \/ aB = 65536 THEN {iValue}
    ELSE IF aB = 0 THEN {0}
    ELSE {LET product == WShr16(WAdd(WMul(x, y), Wide(FALSE, RoundingBias)))
          IN  IF Sign(iValue, aB) > 0
              THEN WToInt32(product)
              ELSE WToInt32(WNeg(product))
          : x \in Operand(iValue), y \in Operand(aB)}

\* aB.iValue >> 1 on the operand as it is used.
Half(y) ==
    LET v == y.mag[2] * 32768 + (y.mag[1] \div 2)
    IN  Wide(y.neg, <<v % Base, v \div Base, 0, 0>>)

\* TFixed::operator/=(TFixed aB): the values iValue can have afterwards.
DivAssign(iValue, aB) ==
    IF iValue = 0 \/ aB = 65536 THEN {iValue}
    ELSE {LET q == IF y.mag = LZero
                   THEN MaxInt32
                   ELSE WToInt32(WDiv(WAdd(WShl16(x), Half(y)), y))
          IN  IF Sign(iValue, aB) < 0 THEN Neg32(q) ELSE q
          : x \in Operand(iValue), y \in Operand(aB)}

\* iValue >> 16, an arithmetic shift.
ShiftRight16(v) == WToInt32(WShr16(WFromInt32(v)))

\* (iValue + bias) >> 16.  A sum beyond 32 bits is undefined behaviour: the
\* build either wraps it around before the shift, or shifts the whole sum.
BiasedShift(v, bias) ==
    LET sum == WAdd(WFromInt32(v), Wide(FALSE, <<bias, 0, 0, 0>>))
    IN  {ShiftRight16(WToInt32(sum)), WToInt32(WShr16(sum))}

\* int32_t TFixed::Rounded() const
Rounded(iValue) == BiasedShift(iValue, 32768)

\* int32_t TFixed::Floor() const
Floor(iValue) == ShiftRight16(iValue)

\* int32_t TFixed::Ceiling() const
Ceiling(iValue) == BiasedShift(iValue, 65535)

\* int32_t TFixed::IntegerPart() const
IntegerPart(iValue) == ShiftRight16(iValue)

\* The low 16 bits of the magnitude of v.
LowBitsOfMagnitude(v) == LMag(v)[1]

\* iValue & 0x0000FFFF: the low 16 bits of the two's complement of v.
LowBits(v) == IF v < 0 THEN (Base - LMag(v)[1]) % Base ELSE LMag(v)[1]

\* TFixed TFixed::FractionalPart() const
FractionalPart(iValue) == LowBits(iValue)

\* TFixed TFixed::operator+(TFixed aFixed) const: the 32 bits of the sum.
Plus(iValue, aFixed) == WToInt32(WAdd(WFromInt32(iValue), WFromInt32(aFixed)))

\* TFixed TFixed::operator-() const
Minus(iValue) == Neg32(iValue)

\* The raw values the TFixed objects are constructed from: values next to
\* zero, multiples of one half, and values at the edges of the range and next
\* to one third.
FixedValues ==
         (-MaxSmallRaw .. MaxSmallRaw)
    \cup {k * 32768 : k \in -MaxHalves .. MaxHalves}
    \cup {21845, 21846, -21846, 2147418112, MaxInt32 - 1, MaxInt32,
          -MaxInt32, MinInt32}

\* No traversal is called.
NoCall == [fn |-> "none", path |-> <<>>, clip |-> "null"]

\* TFixed a, b; TFixed v(a);
InitFixed ==
    /\ call = NoCall
    /\ TravIdle
    /\ fa \in FixedValues
    /\ fb \in FixedValues
    /\ fv = fa
    /\ fops = <<>>
    /\ fint = NoResults
    /\ LineIdle
    /\ OwnIdle
    /\ GeomIdle
    /\ TfmIdle
    /\ StreamIdle

\* v *= b;
FixedMul ==
    /\ call = NoCall
    /\ Len(fops) < MaxFixedOps
    /\ fv' \in MulAssign(fv, fb)
    /\ fops' = Append(fops, "mul")
    /\ fint' = NoResults
    /\ UNCHANGED <<fa, fb>>
    /\ UNCHANGED nonFixedVars

\* v /= b;
FixedDiv ==
    /\ call = NoCall
    /\ Len(fops) < MaxFixedOps
    /\ fv' \in DivAssign(fv, fb)
    /\ fops' = Append(fops, "div")
    /\ fint' = NoResults
    /\ UNCHANGED <<fa, fb>>
    /\ UNCHANGED nonFixedVars

\* TFixed a; TFixed v(a);
InitFixedUnary ==
    /\ call = NoCall
    /\ TravIdle
    /\ fa \in FixedValues
    /\ fb = 0
    /\ fv = fa
    /\ fops = <<>>
    /\ fint = NoResults
    /\ LineIdle
    /\ OwnIdle
    /\ GeomIdle
    /\ TfmIdle
    /\ StreamIdle

\* v.IntegerPart();
FixedIntegerPart ==
    /\ call = NoCall
    /\ fint' = [fint EXCEPT !.IntegerPart = <<IntegerPart(fv)>>]
    /\ UNCHANGED <<fa, fb, fv, fops>>
    /\ UNCHANGED nonFixedVars

\* v.FractionalPart();
FixedFractionalPart ==
    /\ call = NoCall
    /\ fint' = [fint EXCEPT !.FractionalPart = <<FractionalPart(fv)>>]
    /\ UNCHANGED <<fa, fb, fv, fops>>
    /\ UNCHANGED nonFixedVars

\* v.Floor();
FixedFloor ==
    /\ call = NoCall
    /\ fint' = [fint EXCEPT !.Floor = <<Floor(fv)>>]
    /\ UNCHANGED <<fa, fb, fv, fops>>
    /\ UNCHANGED nonFixedVars

\* v.Ceiling();
FixedCeiling ==
    /\ call = NoCall
    /\ \E r \in Ceiling(fv) : fint' = [fint EXCEPT !.Ceiling = <<r>>]
    /\ UNCHANGED <<fa, fb, fv, fops>>
    /\ UNCHANGED nonFixedVars

\* v.Rounded();
FixedRounded ==
    /\ call = NoCall
    /\ \E r \in Rounded(fv) : fint' = [fint EXCEPT !.Rounded = <<r>>]
    /\ UNCHANGED <<fa, fb, fv, fops>>
    /\ UNCHANGED nonFixedVars

\* v = -v;
FixedMinus ==
    /\ call = NoCall
    /\ Len(fops) < MaxFixedOps
    /\ fv' = Minus(fv)
    /\ fops' = Append(fops, "minus")
    /\ fint' = NoResults
    /\ UNCHANGED <<fa, fb>>
    /\ UNCHANGED nonFixedVars

\* v = a + v;
FixedPlus ==
    /\ call = NoCall
    /\ Len(fops) < MaxFixedOps
    /\ fv' = Plus(fa, fv)
    /\ fops' = Append(fops, "plus")
    /\ fint' = NoResults
    /\ UNCHANGED <<fa, fb>>
    /\ UNCHANGED nonFixedVars

-----------------------------------------------------------------------------
(* TPointFixed and TLineFixed. *)

\* void TFixed::operator-=(TFixed aFixed): the 32 bits of the difference.
MinusAssign(iValue, aFixed) ==
    WToInt32(WAdd(WFromInt32(iValue), WNeg(WFromInt32(aFixed))))

\* void TPointFixed::operator-=(const TPointFixed& aPoint)
PointMinusAssign(p, aPoint) ==
    <<MinusAssign(p[1], aPoint[1]), MinusAssign(p[2], aPoint[2])>>

\* TFixed TPointFixed::VectorLengthHelper() const, which is not part of the
\* sources at hand: the Euclidean length of a vector with two non-zero
\* components, to the nearest raw unit.
VectorLengthHelper(iX, iY) ==
    LET n == iX * iX + iY * iY
    IN  CHOOSE r \in 1 .. n : r * r - r < n /\ n <= r * r + r

\* TFixed TPointFixed::VectorLength() const
VectorLength(iX, iY) ==
    IF iX = 0 THEN (IF iY >= 0 THEN iY ELSE Minus(iY))
    ELSE IF iY = 0 THEN (IF iX >= 0 THEN iX ELSE Minus(iX))
    ELSE VectorLengthHelper(iX, iY)

\* The end points the lines are constructed from: points of a small grid,
\* and points at the ends of the range on the axes through the origin.
SmallLinePoints ==
    {<<x, y>> : x \in {-MaxLineCoord, 0, MaxLineCoord},
                y \in {-(MaxLineCoord + 1), 0, MaxLineCoord + 1}}

LineInputs ==
         (SmallLinePoints \X SmallLinePoints)
    \cup {<<<<0, 0>>, <<0, MinInt32>>>>, <<<<0, 0>>, <<MaxInt32, 0>>>>,
          <<<<0, 1>>, <<0, -MaxInt32>>>>, <<<<MinInt32, 0>>, <<0, 0>>>>}

\* A TLineFixed object: its members, and, to tell what was done on it, the
\* number of times its length was computed, the values Length() returned,
\* and the line it is the reverse of (0 when constructed from points).
LineFixed(iStart, iEnd, iLength, of) ==
    [iStart |-> iStart, iEnd |-> iEnd, iLength |-> iLength,
     computed |-> 0, returned |-> <<>>, of |-> of]

\* The condition on which Length() takes the length as cached.
CachedOrZero(iLength) == iLength > 0

Cached(iLength) == iLength >= 0

\* TLineFixed(const TPointFixed& aStart, const TPointFixed& aEnd)
InitLine ==
    /\ call = NoCall
    /\ TravIdle
    /\ FixedIdle
    /\ \E in \in LineInputs : flines = <<LineFixed(in[1], in[2], -1, 0)>>
    /\ OwnIdle
    /\ GeomIdle
    /\ TfmIdle
    /\ StreamIdle

\* flines[i].Length();
LineLength(i) ==
    /\ Len(flines[i].returned) < MaxLengthCalls
    /\ LET l == flines[i]
           p == PointMinusAssign(l.iEnd, l.iStart)
           compute == ~Cached(l.iLength)
           len == IF compute THEN VectorLength(p[1], p[2]) ELSE l.iLength
       IN  flines' = [flines EXCEPT ![i] =
                        [l EXCEPT !.iLength = len,
                                  !.computed = IF compute THEN @ + 1 ELSE @,
                                  !.returned = Append(@, len)]]
    /\ UNCHANGED nonLineVars

\* flines[i].Reverse();
LineReverse(i) ==
    /\ Len(flines) < MaxLines
    /\ LET l == flines[i]
       IN  flines' = Append(flines, LineFixed(l.iEnd, l.iStart, l.iLength, i))
    /\ UNCHANGED nonLineVars

-----------------------------------------------------------------------------
(* CContour, COutline and the TContour views of their points.               *)
(* A point buffer is the storage of a std::vector<TOutlinePoint>: it has an *)
(* identity (0 for no storage) and a capacity, and it is freed when the     *)
(* vector grows beyond the capacity, or is destroyed.                       *)

\* The points given to the contours.
OwnerPoints ==
    {OutlinePoint(0, 4, "OnCurve"), OutlinePoint(-3, 1, "Quadratic"),
     OutlinePoint(-3, 1, "OnCurve")}

\* A CContour object: iPoint (points, buffer and capacity), iClosed, and
\* the operations applied, each with the points and the flag before it.
ContourObject(pts, closed, buf) ==
    [pts |-> pts, closed |-> closed,
     buf |-> IF pts = <<>> THEN 0 ELSE buf, cap |-> Len(pts), hist |-> <<>>]

\* The past of a contour, one operation longer: the operation, its
\* argument, and the points and the flag before it.
Did(c, op, arg) ==
    Append(c.hist, [op |-> op, arg |-> arg, pts |-> c.pts, closed |-> c.closed])

Done(c, op) == Did(c, op, NoPoint)

\* std::reverse(first, last)
Rev(s) == [i \in 1 .. Len(s) |-> s[Len(s) + 1 - i]]

\* void CContour::Reverse(), and a reversal that builds the contour anew.
ReversedAfterClear(c) ==
    [c EXCEPT !.pts = Rev(@), !.closed = FALSE, !.hist = Done(c, "Reverse")]

Reversed(c) == [c EXCEPT !.pts = Rev(@), !.hist = Done(c, "Reverse")]

\* The capacities a vector of n points grown by one may get.
GrownCapacities(n) == {n + 1, 2 * n} \ {0, n}

\* iPoint.push_back(aPoint): the contours c can become, given a fresh
\* buffer identity.
PushedBack(c, aPoint, fresh) ==
    IF Len(c.pts) < c.cap
    THEN {[c EXCEPT !.pts = Append(@, aPoint),
                    !.hist = Did(c, "AppendPoint", aPoint)]}
    ELSE {[c EXCEPT !.pts = Append(@, aPoint), !.buf = fresh, !.cap = n,
                    !.hist = Did(c, "AppendPoint", aPoint)] :
             n \in GrownCapacities(Len(c.pts))}

\* void CContour::AppendPoint(const TOutlinePoint& aPoint), and an
\* AppendPoint that drops every point equal to the last one.
AppendedPointIfNew(c, aPoint, fresh) ==
    IF c.pts # <<>> /\ aPoint = c.pts[Len(c.pts)]
    THEN {[c EXCEPT !.hist = Did(c, "AppendPoint", aPoint)]}
    ELSE PushedBack(c, aPoint, fresh)

AppendedPoint(c, aPoint, fresh) ==
    IF c.pts # <<>> /\ aPoint.t = "OnCurve" /\ aPoint = c.pts[Len(c.pts)]
    THEN {[c EXCEPT !.hist = Did(c, "AppendPoint", aPoint)]}
    ELSE PushedBack(c, aPoint, fresh)

\* void CContour::Clear()
Cleared(c) ==
    [c EXCEPT !.pts = <<>>, !.closed = FALSE, !.hist = Done(c, "Clear")]

\* The point count of the view of a contour, and the capacity mistaken
\* for it.
CapacityOf(c) == c.cap

SizeOf(c) == Len(c.pts)

\* TContour(iPoint.data(), iPoint.size(), iClosed): a view, with the
\* contour it was obtained from, the length of that contour's past, the
\* number of times the outline had been cleared, and what its reads found.
ViewOf(c, i) ==
    [buf |-> c.buf, n |-> SizeOf(c), closed |-> c.closed, of |-> i,
     at |-> Len(c.hist), clears |-> own.clears, reads |-> <<>>]

\* The buffers that are allocated, with the number of points alive in each.
LivePoints(buf) ==
    IF \E i \in 1 .. Len(own.contours) :
           own.contours[i].buf = buf /\ buf # 0
    THEN LET i == CHOOSE i \in 1 .. Len(own.contours) :
                      own.contours[i].buf = buf
         IN  Len(own.contours[i].pts)
    ELSE 0

\* The view v designates live storage: an empty view does, and so does one
\* whose points are all alive in an allocated buffer.
Live(v) == v.n = 0 \/ v.n <= LivePoints(v.buf)

\* The contours the outline is constructed from.
OwnerInputs ==
    {ContourObject(pts, closed, 1) :
        pts \in SeqsUpTo(OwnerPoints, MaxOwnerPoints), closed \in BOOLEAN}

\* COutline(const MPath& aPath), with a path of one contour.
InitOwner ==
    /\ call = NoCall
    /\ TravIdle
    /\ FixedIdle
    /\ LineIdle
    /\ \E c \in OwnerInputs :
           own = [alive |-> TRUE, contours |-> <<c>>, fresh |-> 2,
                  clears |-> 0, nops |-> 0]
    /\ views = <<>>
    /\ GeomIdle
    /\ TfmIdle
    /\ StreamIdle

\* An operation on the owner can be applied.
OwnerReady == own.alive /\ own.nops < MaxOwnerOps

\* own.AppendContour();
OutlineAppendContour ==
    /\ OwnerReady
    /\ Len(own.contours) < MaxOwnerContours
    /\ own' = [own EXCEPT !.contours = Append(@, ContourObject(<<>>, FALSE, 0)),
                          !.nops = @ + 1]
    /\ UNCHANGED views
    /\ UNCHANGED nonOwnVars

\* own.Clear();
OutlineClear ==
    /\ OwnerReady
    /\ own' = [own EXCEPT !.contours = <<>>, !.clears = @ + 1, !.nops = @ + 1]
    /\ UNCHANGED views
    /\ UNCHANGED nonOwnVars

\* own.Contour(i).AppendPoint(p);
ContourAppendPoint(i, p) ==
    /\ OwnerReady
    /\ Len(own.contours[i].pts) < MaxOwnerPoints + 1
    /\ \E c \in AppendedPoint(own.contours[i], p, own.fresh) :
           own' = [own EXCEPT !.contours[i] = c, !.fresh = @ + 1,
                              !.nops = @ + 1]
    /\ UNCHANGED views
    /\ UNCHANGED nonOwnVars

\* own.Contour(i).Clear();
ContourClear(i) ==
    /\ OwnerReady
    /\ own' = [own EXCEPT !.contours[i] = Cleared(@), !.nops = @ + 1]
    /\ UNCHANGED views
    /\ UNCHANGED nonOwnVars

\* own.Contour(i).Reverse();
ContourReverse(i) ==
    /\ OwnerReady
    /\ own' = [own EXCEPT !.contours[i] = Reversed(@), !.nops = @ + 1]
    /\ UNCHANGED views
    /\ UNCHANGED nonOwnVars

\* own.GetContour(i, view); and TContour view = own.Contour(i);
OutlineGetContour(i) ==
    /\ OwnerReady
    /\ Len(views) < MaxViews
    /\ views' = Append(views, ViewOf(own.contours[i], i))
    /\ own' = [own EXCEPT !.nops = @ + 1]
    /\ UNCHANGED nonOwnVars

\* views[v].Point(k) for the points of the view: what is noted is whether
\* the view designated live storage when it was read.
ViewRead(v) ==
    /\ own.nops < MaxOwnerOps
    /\ views' = [views EXCEPT ![v].reads = Append(@, Live(views[v]))]
    /\ own' = [own EXCEPT !.nops = @ + 1]
    /\ UNCHANGED nonOwnVars

-----------------------------------------------------------------------------
(* CGeneralGeometry. *)

\* TCoordType, as far as the geometry tells the values apart.
TCoordType == {"Map", "Degree"}

\* TResult: KErrorNone and two errors.
KErrorNone == 0

TResult == {KErrorNone, 1, 2}

\* A double that is a whole number of halves, as that number: the doubles
\* made from integers, and those with a fraction of one half.
DoubleOf(n) == 2 * n

\* inline int32_t Round(double aValue), and a rounding that does not look
\* at the sign.
RoundAddingHalf(aValue) ==
    LET biased == aValue + 1
    IN  IF biased < 0 THEN -((-biased) \div 2) ELSE biased \div 2

Round(aValue) ==
    LET biased == IF aValue < 0 THEN aValue - 1 ELSE aValue + 1
    IN  IF biased < 0 THEN -((-biased) \div 2) ELSE biased \div 2

\* point_t, a TOutlinePointFP: two doubles and a point type.
OutlinePointFP(iX, iY, iType) == [iX |-> iX, iY |-> iY, iType |-> iType]

\* point_t(p) for a TOutlinePoint p.
PointFPOf(p) == OutlinePointFP(DoubleOf(p.x), DoubleOf(p.y), p.t)

\* The points appended to the geometry: (0, 0) and (1.5, -2).
GeomPoints ==
    {OutlinePointFP(0, 0, "OnCurve"), OutlinePointFP(3, -4, "Quadratic")}

\* The paths and the rectangle the geometries are constructed from.
GeomContour == Contour(<<OutlinePoint(-3, 1, "OnCurve")>>, TRUE)

GeomPaths ==
    {<<>>, <<GeomContour>>, <<GeomContour, GeomContour>>,
     <<NoContour, GeomContour>>}

GeomRects == {[iTopLeft |-> <<0, 0>>, iBottomRight |-> <<3, 4>>]}

\* The number of points in all the contours.
RECURSIVE PointsIn(_)
PointsIn(contours) ==
    IF contours = <<>> THEN 0
    ELSE Len(Head(contours)) + PointsIn(Tail(contours))

\* The members of a geometry, with their default initializers.
Geometry ==
    [constructed |-> TRUE, m_contour_array |-> <<<<>>>>,
     m_coord_type |-> "Map", m_closed |-> FALSE]

\* void AppendPoint(const point_t& aPoint)
WithPoint(g, aPoint) ==
    [g EXCEPT !.m_contour_array[Len(g.m_contour_array)] = Append(@, aPoint)]

\* void BeginContour()
WithContour(g) ==
    IF g.m_contour_array[Len(g.m_contour_array)] # <<>>
    THEN [g EXCEPT !.m_contour_array = Append(@, <<>>)]
    ELSE g

\* for (const auto& p : contour) c.push_back(point_t(p));
RECURSIVE WithPoints(_, _)
WithPoints(g, pts) ==
    IF pts = <<>> THEN g
    ELSE WithPoints(WithPoint(g, PointFPOf(Head(pts))), Tail(pts))

\* The loop over the contours of aPath in the constructor from a path.
RECURSIVE WithContours(_, _)
WithContours(g, contours) ==
    IF contours = <<>> THEN g
    ELSE WithContours(WithPoints(WithContour(g), Head(contours).pts),
                      Tail(contours))

\* CGeneralGeometry()
Default == Geometry

\* explicit CGeneralGeometry(TCoordType aCoordType, bool aClosed = false)
Explicit(aCoordType, aClosed) ==
    [Geometry EXCEPT !.m_coord_type = aCoordType, !.m_closed = aClosed]

\* CGeneralGeometry(const MPath& aPath, TCoordType aCoordType, bool aClosed)
FromPath(aPath, aCoordType, aClosed) ==
    WithContours([Geometry EXCEPT !.m_coord_type = aCoordType,
                                  !.m_closed = aClosed],
                 aPath)

\* CGeneralGeometry(const TRectFP& aRect, TCoordType aCoordType)
FromRect(aRect, aCoordType) ==
    LET g == [Geometry EXCEPT !.m_coord_type = aCoordType, !.m_closed = TRUE]
        corner(x, y) == OutlinePointFP(x, y, "OnCurve")
        g1 == WithPoint(g, corner(aRect.iTopLeft[1], aRect.iTopLeft[2]))
        g2 == WithPoint(g1, corner(aRect.iTopLeft[1], aRect.iBottomRight[2]))
        g3 == WithPoint(g2, corner(aRect.iBottomRight[1],
                                   aRect.iBottomRight[2]))
    IN  WithPoint(g3, corner(aRect.iBottomRight[1], aRect.iTopLeft[2]))

\* CGeneralGeometry(const point_t& aPoint, TCoordType aCoordType)
FromPoint(aPoint, aCoordType) ==
    WithPoint([Geometry EXCEPT !.m_coord_type = aCoordType], aPoint)

\* A geometry made by one of the constructors.
InitGeom ==
    /\ call = NoCall
    /\ TravIdle
    /\ FixedIdle
    /\ LineIdle
    /\ OwnIdle
    /\ \/ geom = Default
       \/ \E t \in TCoordType, closed \in BOOLEAN : geom = Explicit(t, closed)
       \/ \E aPath \in GeomPaths, t \in TCoordType, closed \in BOOLEAN :
              geom = FromPath(aPath, t, closed)
       \/ \E aRect \in GeomRects, t \in TCoordType : geom = FromRect(aRect, t)
       \/ \E p \in GeomPoints, t \in TCoordType : geom = FromPoint(p, t)
    /\ conv = NoConvert
    /\ outl = NoOutline
    /\ TfmIdle
    /\ StreamIdle

\* size_t ContourCount() const
ContourCount == Len(geom.m_contour_array)

\* bool IsEmpty() const
IsEmpty == geom.m_contour_array[1] = <<>>

\* geom.AppendPoint(p);
GeomAppendPoint(p) ==
    /\ PointsIn(geom.m_contour_array) < MaxGeomPoints
    /\ geom' = WithPoint(geom, p)
    /\ UNCHANGED <<conv, outl>>
    /\ UNCHANGED nonGeomVars

\* geom.BeginContour();
GeomBeginContour ==
    /\ ContourCount < MaxGeomContours
    /\ geom' = WithContour(geom)
    /\ UNCHANGED <<conv, outl>>
    /\ UNCHANGED nonGeomVars

\* geom.Reverse();
GeomReverse ==
    /\ geom' = [geom EXCEPT !.m_contour_array =
                    [i \in 1 .. Len(@) |-> Rev(Rev(@)[i])]]
    /\ UNCHANGED <<conv, outl>>
    /\ UNCHANGED nonGeomVars

\* geom.SetClosed(aClosed);
GeomSetClosed(aClosed) ==
    /\ geom' = [geom EXCEPT !.m_closed = aClosed]
    /\ UNCHANGED <<conv, outl>>
    /\ UNCHANGED nonGeomVars

\* m_contour_array.resize(1); m_contour_array[0].resize(0); and a Clear
\* that leaves no contour.
ClearedToNothing(contours) == <<>>

ClearedContours(contours) == <<<<>>>>

\* geom.Clear();
GeomClear ==
    /\ geom' = [geom EXCEPT !.m_contour_array = ClearedContours(@),
                            !.m_coord_type = "Map", !.m_closed = FALSE]
    /\ UNCHANGED <<conv, outl>>
    /\ UNCHANGED nonGeomVars

\* if (error), and a test that lets every result pass.
NeverAnError(error) == FALSE

IsError(error) == error # KErrorNone

\* The loop of ConvertCoords from contour i on: aConvertFunction returns
\* results[i] for contour i; calls are the contours it was called for so
\* far, returned what it returned for them.
RECURSIVE ConvertLoop(_, _, _, _)
ConvertLoop(i, results, calls, returned) ==
    IF i > Len(results)
    THEN [calls |-> calls, returned |-> returned, ret |-> KErrorNone]
    ELSE LET error == results[i]
         IN  IF IsError(error)
             THEN [calls |-> Append(calls, i),
                   returned |-> Append(returned, error), ret |-> error]
             ELSE ConvertLoop(i + 1, results, Append(calls, i),
                              Append(returned, error))

\* geom.ConvertCoords(aToCoordType, aConvertFunction);
GeomConvertCoords(aToCoordType, results) ==
    /\ IF geom.m_coord_type = aToCoordType
       THEN /\ conv' = [called |-> TRUE, from |-> geom.m_coord_type,
                        to |-> aToCoordType, contours |-> ContourCount,
                        calls |-> <<>>, returned |-> <<>>, ret |-> KErrorNone,
                        type |-> geom.m_coord_type]
            /\ geom' = geom
       ELSE LET done == ConvertLoop(1, results, <<>>, <<>>)
            IN  /\ conv' = [called |-> TRUE, from |-> geom.m_coord_type,
                            to |-> aToCoordType, contours |-> ContourCount,
                            calls |-> done.calls, returned |-> done.returned,
                            ret |-> done.ret, type |-> aToCoordType]
                /\ geom' = [geom EXCEPT !.m_coord_type = aToCoordType]
    /\ UNCHANGED outl
    /\ UNCHANGED nonGeomVars

\* The paths copied into a geometry and back.
CopyPoints == {OutlinePoint(-3, 1, "OnCurve"), OutlinePoint(0, 4, "Quadratic")}

CopyPaths ==
    SeqsUpTo({Contour(pts, closed) :
                 pts \in SeqsUpTo(CopyPoints, MaxCopyPoints),
                 closed \in BOOLEAN},
             MaxCopyContours)

\* CGeneralGeometry geom(aPath, aCoordType, aClosed); the arguments are
\* kept with the outline to be made.
InitCopy ==
    /\ call = NoCall
    /\ TravIdle
    /\ FixedIdle
    /\ LineIdle
    /\ OwnIdle
    /\ \E aPath \in CopyPaths, t \in TCoordType, closed \in BOOLEAN :
           /\ geom = FromPath(aPath, t, closed)
           /\ outl = [made |-> FALSE, aPath |-> aPath, aClosed |-> closed]
    /\ conv = NoConvert
    /\ TfmIdle
    /\ StreamIdle

\* iPoint after c.AppendPoint(aPoint) on a CContour of the outline.
PointAppended(iPoint, aPoint) ==
    IF iPoint # <<>> /\ aPoint.t = "OnCurve" /\ aPoint = iPoint[Len(iPoint)]
    THEN iPoint
    ELSE Append(iPoint, aPoint)

\* The loop over the points of a contour in operator COutline.
RECURSIVE OutlinePointsOf(_, _)
OutlinePointsOf(iPoint, points) ==
    IF points = <<>> THEN iPoint
    ELSE LET q == Head(points)
             p == OutlinePoint(Round(q.iX), Round(q.iY), q.iType)
         IN  OutlinePointsOf(PointAppended(iPoint, p), Tail(points))

\* operator COutline() const: the contours of the outline.
OutlineOf(g) ==
    [i \in 1 .. Len(g.m_contour_array) |->
        Contour(OutlinePointsOf(<<>>, g.m_contour_array[i]), g.m_closed)]

\* COutline outline = geom;
GeomToOutline ==
    /\ ~outl.made
    /\ outl' = [made |-> TRUE, contours |-> OutlineOf(geom), of |-> outl]
    /\ UNCHANGED <<geom, conv>>
    /\ UNCHANGED nonGeomVars

-----------------------------------------------------------------------------
(* TTransformFP::Transform. *)

\* The doubles of the model: the integers of small magnitude, which a
\* double holds exactly, the two infinities and NaN.
Fin(n) == [k |-> "finite", v |-> n]

PosInf == [k |-> "inf", v |-> 1]

NegInf == [k |-> "inf", v |-> -1]

NaN == [k |-> "nan", v |-> 0]

IsFinite(a) == a.k = "finite"

\* a * b on doubles: NaN is contagious, zero times infinity is NaN.
FMul(a, b) ==
    IF a.k = "nan" \/ b.k = "nan" THEN NaN
    ELSE IF a.k = "inf" \/ b.k = "inf"
         THEN IF a.v = 0 \/ b.v = 0 THEN NaN
              ELSE IF (a.v < 0) = (b.v < 0) THEN PosInf ELSE NegInf
         ELSE Fin(a.v * b.v)

\* a + b on doubles: NaN is contagious, opposite infinities add to NaN.
FAdd(a, b) ==
    IF a.k = "nan" \/ b.k = "nan" THEN NaN
    ELSE IF a.k = "inf" /\ b.k = "inf"
         THEN IF a.v = b.v THEN a ELSE NaN
         ELSE IF a.k = "inf" THEN a
              ELSE IF b.k = "inf" THEN b
                   ELSE Fin(a.v + b.v)

\* A transform that stores the new x before it computes the new y.
TransformedInPlace(t, aX, aY) ==
    LET new_x == FAdd(FAdd(FMul(t.iA, aX), FMul(t.iC, aY)), t.iTx)
        new_y == FAdd(FAdd(FMul(t.iB, new_x), FMul(t.iD, aY)), t.iTy)
    IN  <<new_x, new_y>>

\* void Transform(double& aX, double& aY) const: the values of aX and aY
\* when it returns.
Transformed(t, aX, aY) ==
    LET new_x == FAdd(FAdd(FMul(t.iA, aX), FMul(t.iC, aY)), t.iTx)
        new_y == FAdd(FAdd(FMul(t.iB, aX), FMul(t.iD, aY)), t.iTy)
    IN  <<new_x, new_y>>

\* The coefficients of the transforms and the coordinates of the points.
TransformFPs ==
    [iA : {Fin(1), Fin(2)}, iB : {Fin(0), Fin(1)}, iC : {Fin(0), Fin(-1)},
     iD : {Fin(1), Fin(3)}, iTx : {Fin(0), Fin(5)}, iTy : {Fin(0), Fin(-7)}]

Doubles == {Fin(-2), Fin(0), Fin(1), PosInf, NegInf, NaN}

\* TTransformFP(aA, aB, aC, aD, aTx, aTy), and a point (aX, aY) of the
\* caller; before is the point passed to the last call of Transform.
InitTransform ==
    /\ call = NoCall
    /\ TravIdle
    /\ FixedIdle
    /\ LineIdle
    /\ OwnIdle
    /\ GeomIdle
    /\ \E t \in TransformFPs, x \in Doubles, y \in Doubles :
           tfm = [made |-> TRUE, t |-> t, aX |-> x, aY |-> y,
                  before |-> <<x, y>>, calls |-> 0]
    /\ StreamIdle

\* tfm.t.Transform(aX, aY);
TransformPoint ==
    /\ tfm.calls < MaxTransformCalls
    /\ LET r == Transformed(tfm.t, tfm.aX, tfm.aY)
       IN  tfm' = [tfm EXCEPT !.aX = r[1], !.aY = r[2],
                              !.before = <<tfm.aX, tfm.aY>>,
                              !.calls = @ + 1]
    /\ UNCHANGED nonTfmVars

-----------------------------------------------------------------------------
(* TDataInputStream: the cache and the inline reading functions. *)

\* A pointer: nullptr, or an offset into the buffer MInputStream::Read
\* returned last.
Ptr(off) == [base |-> "buffer", off |-> off]

Nullptr == [base |-> "nullptr", off |-> 0]

\* p + n, and a pointer that moves by one byte whatever n is.
PtrPlusOne(p, n) == [p EXCEPT !.off = @ + 1]

PtrPlus(p, n) == [p EXCEPT !.off = @ + n]

\* The values of the bytes in the buffer, and the positions of the buffer
\* in the stream.
StreamBytes == {1, 255}

StreamPositions == {0, 4096}

\* int64_t Position() const
Position(st) == st.iDataPosition + (st.iData.off - st.iDataStart.off)

\* st.iData[k]
DataAt(st, k) == st.buf[st.iData.off + k + 1]

\* What the members and Position() were when a function was called.
Before(st) == [iData |-> st.iData, iDataBytes |-> st.iDataBytes,
               Position |-> Position(st)]

\* The record of a call: what it returned (a pointer for Read, the limbs
\* of 16 bits of the value, least significant first, for the others),
\* the values it assigned to aError, and whether it stayed inline.
Called(st, fn, aBytes, inline, ret, error) ==
    [fn |-> fn, aBytes |-> aBytes, inline |-> inline, ret |-> ret,
     error |-> error, before |-> Before(st)]

\* A stream just constructed (nothing cached), or one whose ReadData has
\* filled the cache with buf from the position pos of the data source.
InitStream ==
    /\ call = NoCall
    /\ TravIdle
    /\ FixedIdle
    /\ LineIdle
    /\ OwnIdle
    /\ GeomIdle
    /\ TfmIdle
    /\ \/ stream = [made |-> TRUE, buf |-> <<>>, iData |-> Nullptr,
                    iDataBytes |-> 0, iDataPosition |-> 0,
                    iDataStart |-> Nullptr, helper |-> FALSE,
                    last |-> [fn |-> "none"]]
       \/ \E n \in 0 .. MaxCachedBytes, pos \in StreamPositions :
              \E buf \in [1 .. n -> StreamBytes] :
                  stream = [made |-> TRUE, buf |-> buf, iData |-> Ptr(0),
                            iDataBytes |-> n, iDataPosition |-> pos,
                            iDataStart |-> Ptr(0), helper |-> FALSE,
                            last |-> [fn |-> "none"]]

\* The stream after an inline path that consumes n bytes, and after a call
\* that goes to a helper function: the helpers are not inline, and what
\* they leave in the members is outside the model.
Consumed(st, n) ==
    [st EXCEPT !.iData = PtrPlus(st.iData, n), !.iDataBytes = @ - n]

InHelper(st) == [st EXCEPT !.helper = TRUE]

\* stream.Read(aBytes);
StreamRead(aBytes) ==
    /\ ~stream.helper
    /\ stream' =
           IF stream.iDataBytes >= aBytes
           THEN LET st == Consumed(stream, aBytes)
                IN  [st EXCEPT !.last =
                         Called(stream, "Read", aBytes, TRUE,
                                PtrPlus(st.iData, -aBytes), <<>>)]
           ELSE [stream EXCEPT !.last =
                     Called(stream, "Read", aBytes, TRUE, Nullptr, <<>>)]
    /\ UNCHANGED nonStreamVars

\* stream.ReadUint8(aError);
StreamReadUint8 ==
    /\ ~stream.helper
    /\ stream' =
           IF stream.iDataBytes >= 1
           THEN LET st == Consumed(stream, 1)
                IN  [st EXCEPT !.last =
                         Called(stream, "ReadUint8", 1, TRUE,
                                <<DataAt(stream, 0)>>, <<0>>)]
           ELSE [InHelper(stream) EXCEPT !.last =
                     Called(stream, "ReadUint8", 1, FALSE, <<>>, <<>>)]
    /\ UNCHANGED nonStreamVars

\* stream.ReadUint16BigEndian(aError);
StreamReadUint16BigEndian ==
    /\ ~stream.helper
    /\ stream' =
           IF stream.iDataBytes >= 2
           THEN LET st == Consumed(stream, 2)
                IN  [st EXCEPT !.last =
                         Called(stream, "ReadUint16BigEndian", 2, TRUE,
                                <<DataAt(st, -2) * 256 + DataAt(st, -1)>>,
                                <<0>>)]
           ELSE [InHelper(stream) EXCEPT !.last =
                     Called(stream, "ReadUint16BigEndian", 2, FALSE, <<>>,
                            <<>>)]
    /\ UNCHANGED nonStreamVars

\* stream.ReadUint32BigEndian(aError);
StreamReadUint32BigEndian ==
    /\ ~stream.helper
    /\ stream' =
           IF stream.iDataBytes >= 4
           THEN LET st == Consumed(stream, 4)
                IN  [st EXCEPT !.last =
                         Called(stream, "ReadUint32BigEndian", 4, TRUE,
                                <<DataAt(st, -2) * 256 + DataAt(st, -1),
                                  DataAt(st, -4) * 256 + DataAt(st, -3)>>,
                                <<0>>)]
           ELSE [InHelper(stream) EXCEPT !.last =
                     Called(stream, "ReadUint32BigEndian", 4, FALSE, <<>>,
                            <<>>)]
    /\ UNCHANGED nonStreamVars

\* stream.ReadUint40BigEndian(aError);
StreamReadUint40BigEndian ==
    /\ ~stream.helper
    /\ stream' =
           IF stream.iDataBytes >= 5
           THEN LET st == Consumed(stream, 5)
                IN  [st EXCEPT !.last =
                         Called(stream, "ReadUint40BigEndian", 5, TRUE,
                                <<DataAt(st, -2) * 256 + DataAt(st, -1),
                                  DataAt(st, -4) * 256 + DataAt(st, -3),
                                  DataAt(st, -5)>>,
                                <<0>>)]
           ELSE [InHelper(stream) EXCEPT !.last =
                     Called(stream, "ReadUint40BigEndian", 5, FALSE, <<>>,
                            <<>>)]
    /\ UNCHANGED nonStreamVars

-----------------------------------------------------------------------------

Next ==
    \/ PathTraversePtr
    \/ PathTraverseRef
    \/ PathLoopCall
    \/ PathLoopExit
    \/ ContourReturn
    \/ ContourTraverse
    \/ EntryTooFew
    \/ EntryClip
    \/ EntryStart
    \/ LoopExit
    \/ LineStep
    \/ QuadEnter
    \/ QuadStep
    \/ CubicStep

Spec == Init /\ [][Next]_vars

SpecLive == InitLive /\ [][Next]_vars /\ WF_vars(Next)

NextFixed ==
    \/ FixedMul
    \/ FixedDiv

SpecFixed == InitFixed /\ [][NextFixed]_vars

NextFixedUnary ==
    \/ FixedIntegerPart
    \/ FixedFractionalPart
    \/ FixedFloor
    \/ FixedCeiling
    \/ FixedRounded
    \/ FixedMinus
    \/ FixedPlus

SpecFixedUnary == InitFixedUnary /\ [][NextFixedUnary]_vars

NextLine ==
    \/ \E i \in 1 .. Len(flines) : LineLength(i)
    \/ \E i \in 1 .. Len(flines) : LineReverse(i)

SpecLine == InitLine /\ [][NextLine]_vars

NextOwner ==
    \/ OutlineAppendContour
    \/ OutlineClear
    \/ \E i \in 1 .. Len(own.contours), p \in OwnerPoints :
           ContourAppendPoint(i, p)
    \/ \E i \in 1 .. Len(own.contours) : ContourClear(i)
    \/ \E i \in 1 .. Len(own.contours) : ContourReverse(i)
    \/ \E i \in 1 .. Len(own.contours) : OutlineGetContour(i)
    \/ \E v \in 1 .. Len(views) : ViewRead(v)

SpecOwner == InitOwner /\ [][NextOwner]_vars

NextGeom ==
    \/ \E p \in GeomPoints : GeomAppendPoint(p)
    \/ GeomBeginContour
    \/ GeomReverse
    \/ \E aClosed \in BOOLEAN : GeomSetClosed(aClosed)
    \/ GeomClear
    \/ \E t \in TCoordType, results \in [1 .. ContourCount -> TResult] :
           GeomConvertCoords(t, results)

SpecGeom == InitGeom /\ [][NextGeom]_vars

NextCopy == GeomToOutline

SpecCopy == InitCopy /\ [][NextCopy]_vars

NextTransform == TransformPoint

SpecTransform == InitTransform /\ [][NextTransform]_vars

NextStream ==
    \/ \E aBytes \in 0 .. MaxReadBytes : StreamRead(aBytes)
    \/ StreamReadUint8
    \/ StreamReadUint16BigEndian
    \/ StreamReadUint32BigEndian
    \/ StreamReadUint40BigEndian

SpecStream == InitStream /\ [][NextStream]_vars

-----------------------------------------------------------------------------
(* The properties. *)

\* The model's call is TContour::Traverse on TheContour.
Direct == call.fn = "TContour::Traverse"

TheContour == call.path[1]

\* No clip rectangle is in force: none was passed, or a maximal one.
Unclipped == call.clip \in {"null", "maximal"}

\* A call on the traverser without the model's tags.
Op(e) == <<e.op, e.c1, e.c2, e.p>>

OutOps == [i \in 1..Len(out) |-> Op(out[i])]

HasTag(c, t) == \E i \in 1..Points(c) : c.pts[i].t = t

\* (a + b) / 2 as the integers have it, truncated toward zero.
ExactHalf(a, b) == IF AddOverflows(a, b) THEN WideHalf(a, b) ELSE TruncHalf(a + b)

ExactMid(p, q) == <<ExactHalf(p[1], q[1]), ExactHalf(p[2], q[2])>>

\* C1: a contour of fewer than 2 points makes TContour::Traverse call no
\* traverser function, whatever the clip rectangle, the tags and the closed
\* flag; so a path made of such contours produces no call either.
C1_FewPointsNoOutput ==
    (\A i \in 1..Len(call.path) : Points(call.path[i]) < 2) =>
        /\ out = <<>>
        /\ pc \notin {"loop", "quad"}
        /\ \A j \in 1..Len(frames) : ~frames[j].nested

C1_Witness ==
    /\ pc = "done"
    /\ Direct
    /\ Points(TheContour) = 1
    /\ call.clip = "rect"

\* C2: the unclipped traversal of a contour of at least 2 points that are all
\* on-curve calls exactly MoveTo(p0), LineTo(p1) ... LineTo(p[n-1]) in index
\* order, and then LineTo(p0) if and only if the contour is closed and
\* p[n-1] differs from p0.
C2_Expected(c) ==
    LET n == Points(c)
        lines == [i \in 1..n |->
                    IF i = 1 THEN <<"MoveTo", NoPoint, NoPoint, Pt(c.pts[1])>>
                    ELSE <<"LineTo", NoPoint, NoPoint, Pt(c.pts[i])>>]
    IN  IF c.closed /\ Pt(c.pts[n]) # Pt(c.pts[1])
        THEN Append(lines, <<"LineTo", NoPoint, NoPoint, Pt(c.pts[1])>>)
        ELSE lines

C2_LinesOnly ==
    (/\ Direct
     /\ Unclipped
     /\ pc = "done"
     /\ Points(TheContour) >= 2
     /\ \A i \in 1..Points(TheContour) : TheContour.pts[i].t = "OnCurve")
    => OutOps = C2_Expected(TheContour)

C2_Witness ==
    /\ Direct
    /\ Unclipped
    /\ pc = "done"
    /\ Points(TheContour) = 3
    /\ \A i \in 1..Points(TheContour) : TheContour.pts[i].t = "OnCurve"
    /\ TheContour.closed
    /\ Len(out) = 4

\* C3: for a path whose contours all have at least 2 points, MPath::Traverse
\* with no clip rectangle or a maximal one calls MoveTo exactly once per
\* contour, as the first call made for that contour, and takes the contours
\* in increasing index order 0..Contours()-1.
C3_OneMoveToPerContour ==
    (/\ ~Direct
     /\ Unclipped
     /\ \A i \in 1..Len(call.path) : Points(call.path[i]) >= 2)
    => /\ \A i \in 1..Len(out) :
              (out[i].op = "MoveTo") <=> (i = 1 \/ out[i - 1].k # out[i].k)
       /\ \A i \in 1..Len(out) : i > 1 => out[i - 1].k <= out[i].k
       /\ \A i \in 1..Len(out) : out[i].d = 0
       /\ pc = "done" =>
              /\ {out[i].k : i \in 1..Len(out)} = 0..(Len(call.path) - 1)
              /\ Cardinality({i \in 1..Len(out) : out[i].op = "MoveTo"}) = Len(call.path)

C3_Witness ==
    /\ ~Direct
    /\ call.clip = "maximal"
    /\ pc = "done"
    /\ Len(call.path) = 2
    /\ \A i \in 1..Len(call.path) : Points(call.path[i]) >= 2
    /\ call.path[1] # call.path[2]

\* C4: in the unclipped traversal of a contour of at least 2 points, MoveTo
\* gets the last point when the first point is a quadratic control point and
\* the last point is on-curve, the component-wise midpoint of the first and
\* last points when the first is a quadratic control point and the last is
\* not on-curve, and the first point in every other case.
C4_StartPoint(c) ==
    LET first == c.pts[1]
        last == c.pts[Points(c)]
    IN  IF first.t = "Quadratic"
        THEN IF last.t = "OnCurve" THEN Pt(last) ELSE ExactMid(Pt(first), Pt(last))
        ELSE Pt(first)

C4_MoveToPoint ==
    (Direct /\ Unclipped /\ Points(TheContour) >= 2 /\ pc \in {"loop", "quad", "ret", "done"})
    => /\ Len(out) >= 1
       /\ Op(out[1]) = <<"MoveTo", NoPoint, NoPoint, C4_StartPoint(TheContour)>>

\* C5: for every two consecutive quadratic control points q and q' of a
\* contour, the unclipped traversal calls QuadraticTo(q, m) with m the
\* midpoint (q + q') / 2 rounded toward zero, without wrap-around for any
\* 32-bit coordinates, and the next curve has q' as its control point.
\* (Stated for contours without cubic points, which are traversed to the end.)
C5_ImpliedMidpoints ==
    (Direct /\ Unclipped /\ pc = "done" /\ Points(TheContour) >= 2
        /\ ~HasTag(TheContour, "Cubic"))
    => \A i \in 1..(Points(TheContour) - 1) :
          LET q == TheContour.pts[i]
              q2 == TheContour.pts[i + 1]
          IN  (q.t = "Quadratic" /\ q2.t = "Quadratic") =>
                 \E j \in 1..(Len(out) - 1) :
                    /\ Op(out[j]) = <<"QuadraticTo", Pt(q), NoPoint, ExactMid(Pt(q), Pt(q2))>>
                    /\ out[j + 1].op = "QuadraticTo"
                    /\ out[j + 1].c1 = Pt(q2)

\* C6: the unclipped traversal calls CubicTo(c1, c2, e) only for two
\* consecutive cubic control points c1 and c2, with e the on-curve point that
\* follows them, or the start point when c2 is the last point of the contour;
\* no other arrangement gets a CubicTo.
C6_CubicOnlyForPairs ==
    (Direct /\ Unclipped /\ Points(TheContour) >= 2)
    => \A j \in 1..Len(out) :
          out[j].op = "CubicTo" =>
             \E i \in 1..(Points(TheContour) - 1) :
                /\ TheContour.pts[i].t = "Cubic"
                /\ TheContour.pts[i + 1].t = "Cubic"
                /\ out[j].c1 = Pt(TheContour.pts[i])
                /\ out[j].c2 = Pt(TheContour.pts[i + 1])
                /\ \/ /\ i + 2 <= Points(TheContour)
                      /\ TheContour.pts[i + 2].t = "OnCurve"
                      /\ out[j].p = Pt(TheContour.pts[i + 2])
                   \/ /\ i + 1 = Points(TheContour)
                      /\ out[j].p = out[1].p

\* The tags from the on-curve point i on are well formed: on-curve points,
\* runs of quadratic control points ended by an on-curve point, and pairs of
\* cubic control points ended by an on-curve point.
RECURSIVE ValidFrom(_, _)
ValidFrom(c, i) ==
    LET n == Points(c)
    IN  IF i >= n THEN TRUE
        ELSE IF c.pts[i + 1].t = "OnCurve" THEN ValidFrom(c, i + 1)
        ELSE IF c.pts[i + 1].t = "Quadratic"
        THEN LET ends == {j \in (i + 2)..n : c.pts[j].t # "Quadratic"}
             IN  /\ ends # {}
                 /\ LET e == CHOOSE j \in ends : \A j2 \in ends : j <= j2
                    IN  c.pts[e].t = "OnCurve" /\ ValidFrom(c, e)
        ELSE /\ i + 3 <= n
             /\ c.pts[i + 2].t = "Cubic"
             /\ c.pts[i + 3].t = "OnCurve"
             /\ ValidFrom(c, i + 3)

\* The segments a well-formed contour that starts on-curve is made of: one
\* per on-curve point after the first, one per implied midpoint.
SegCount(c) ==
    Cardinality({i \in 2..Points(c) : c.pts[i].t = "OnCurve"})
    + Cardinality({i \in 2..Points(c) :
                     c.pts[i].t = "Quadratic" /\ c.pts[i - 1].t = "Quadratic"})

\* C7: for a closed contour with well-formed tags whose last point is on-curve
\* and differs from the start point, the unclipped traversal ends with
\* LineTo(start), called after the call that reaches the last point; when
\* the last position reached is the start already, no closing line is added.
C7_ClosingLine ==
    (/\ Direct /\ Unclipped /\ pc = "done" /\ Points(TheContour) >= 2
     /\ TheContour.closed
     /\ TheContour.pts[1].t = "OnCurve"
     /\ TheContour.pts[Points(TheContour)].t = "OnCurve"
     /\ ValidFrom(TheContour, 1))
    => LET start == Pt(TheContour.pts[1])
           last == Pt(TheContour.pts[Points(TheContour)])
           n == Len(out)
       IN  IF last # start
           THEN /\ n = SegCount(TheContour) + 2
                /\ Op(out[n]) = <<"LineTo", NoPoint, NoPoint, start>>
                /\ out[n - 1].p = last
           ELSE /\ n = SegCount(TheContour) + 1
                /\ out[n].p = last

\* C8: TContour::Traverse on a contour of at least 2 points clips the contour
\* exactly when a clip rectangle is supplied, it is not maximal and ClipType
\* does not answer Inside; the clipped outline is then traversed with no clip
\* rectangle and nothing else is emitted for the contour, so clipping never
\* nests; in every other case the original points are traversed directly.
C8_ClipStep ==
    (pc = "entry" /\ Points(cur) >= 2) =>
        IF aClip # "null" /\ aClip # "maximal" /\ clipType' # "Inside"
        THEN /\ pc' = "path_loop"
             /\ out' = out
             /\ Len(frames') = Len(frames) + 1
             /\ frames'[1].nested
             /\ frames'[1].clip = "null"
             /\ frames'[1].i = 0
             /\ Tail(frames') = frames
        ELSE /\ pc' = "loop"
             /\ frames' = frames
             /\ Len(out') = Len(out) + 1
             /\ out'[Len(out')].op = "MoveTo"
             /\ out'[Len(out')].p \in
                    {Pt(cur.pts[1]), Pt(cur.pts[Points(cur)])}
                    \cup Midpoints(Pt(cur.pts[1]), Pt(cur.pts[Points(cur)]))

C8_ClipReturn ==
    (frames # <<>> /\ frames[1].nested /\ frames' # frames) =>
        IF Len(frames') = Len(frames)
        THEN frames'[1].nested /\ Tail(frames') = Tail(frames)
        ELSE frames' = Tail(frames) /\ pc' = "ret" /\ out' = out

C8_NestedOnce ==
    /\ \A j \in 1..Len(frames) :
          frames[j].nested => (j = 1 /\ frames[j].clip = "null")
    /\ (frames # <<>> /\ frames[1].nested /\ pc = "entry") => aClip = "null"

C8_ClipsOnce == []C8_NestedOnce /\ [][C8_ClipStep /\ C8_ClipReturn]_vars

C8_Witness ==
    /\ pc = "done"
    /\ call.clip = "rect"
    /\ \E i \in 1..Len(out) : out[i].d = 1
    /\ \E i \in 1..Len(out) : out[i].d = 0

\* C9: the unclipped TContour::Traverse returns for every contour and every
\* sequence of tags that does not start with a cubic control point: the
\* position advances on every pass of the outer loop, of the inner loop of
\* the quadratic case and of the cubic step.
C9_Advances ==
    (pc \in {"loop", "quad"} /\ pc' \in {"loop", "quad"}) =>
        (point' > point /\ point' <= limit /\ limit' = limit)

C9_Terminates == <>(pc = "done") /\ [][C9_Advances]_vars

C9_Witness ==
    /\ pc = "done"
    /\ Direct
    /\ call.clip = "null"
    /\ Points(TheContour) = 3
    /\ TheContour.pts[2].t = "Cubic"
    /\ TheContour.pts[3].t = "Quadratic"
    /\ Len(out) = 1

-----------------------------------------------------------------------------
(* TFixed: multiplication followed by division. *)

\* x and y differ by at most one raw unit.
Within1(x, y) ==
    \/ x = y
    \/ x < MaxInt32 /\ x + 1 = y
    \/ y < MaxInt32 /\ y + 1 = x

\* v has been multiplied by b and then divided by b.
MulThenDiv == fops = <<"mul", "div">>

\* The exact product of a and b, rounded to the nearest raw unit, has a
\* magnitude of at most 0x7FFFFFFF.
ProductFits(a, b) ==
    LET p == LShr16(LAdd(LMul(LMag(a), LMag(b)), <<32768, 0, 0, 0>>))
    IN  p[3] = 0 /\ p[2] < 32768

\* b has a magnitude of at least one third; a, b and the product a*b are in
\* the range of TFixed, a leaving room for one raw unit more.
C10_InRange ==
    /\ fb # MinInt32
    /\ fb >= 21846 \/ fb <= -21846
    /\ fa > -MaxInt32
    /\ fa < MaxInt32
    /\ ProductFits(fa, fb)

-----------------------------------------------------------------------------
(* TFixed: division by zero. *)

\* v has been divided by b, and nothing else.
DivOnly == fops = <<"div">>

\* The greatest magnitude, with the sign of a.
MaxWithSignOf(a) == IF a < 0 THEN -MaxInt32 ELSE MaxInt32

\* C11, as stated: dividing any a by zero returns the greatest magnitude
\* (raw 0x7FFFFFFF) with the sign of a.
C11_DivByZeroAnyDividend == (DivOnly /\ fb = 0) => fv = MaxWithSignOf(fa)

\* C11, amended: dividing a non-zero a by zero returns the greatest
\* magnitude (raw 0x7FFFFFFF) with the sign of a, and dividing zero by zero
\* returns zero.
C11_DivByZero ==
    (DivOnly /\ fb = 0) => fv = (IF fa = 0 THEN 0 ELSE MaxWithSignOf(fa))

\* A negative value divided by zero.
C11_Witness == DivOnly /\ fb = 0 /\ fa < 0 /\ fv = -MaxInt32

-----------------------------------------------------------------------------
(* TFixed: the rounding and the range of products and quotients. *)

\* v has been multiplied by b, and nothing else.
MulOnly == fops = <<"mul">>

\* The magnitude of the exact product of a and b, rounded to the nearest
\* raw unit, ties away from zero.
RoundedProductMag(a, b) ==
    LShr16(LAdd(LMul(LMag(a), LMag(b)), <<32768, 0, 0, 0>>))

DifferentSigns(a, b) == (a < 0) # (b < 0)

\* The rounded product is an int32_t.
RoundedProductFits(a, b) ==
    LET p == RoundedProductMag(a, b)
    IN  /\ p[3] = 0
        /\ \/ p[2] < 32768
           \/ DifferentSigns(a, b) /\ p[2] = 32768 /\ p[1] = 0

RoundedProduct(a, b) ==
    WToInt32(Wide(DifferentSigns(a, b), RoundedProductMag(a, b)))

\* C12: for all a and b whose rounded product fits in 32 bits, a*b is the
\* exact product rounded to the nearest raw unit, ties away from zero.
C12_RoundedProduct ==
    (MulOnly /\ RoundedProductFits(fa, fb)) => fv = RoundedProduct(fa, fb)

\* The exact result of the one operation applied has a magnitude of at
\* least one raw unit.
ExactAtLeastOneUnit ==
    IF MulOnly
    THEN LGeq(LMul(LMag(fa), LMag(fb)), <<0, 1, 0, 0>>)
    ELSE LGeq(LShl16(LMag(fa)), LMag(fb))

\* C13: for all non-zero a and b, a*b and a/b are never negative when a and
\* b have the same sign, never positive when their signs differ, and never
\* 0 when the exact result has a magnitude of at least one raw unit.
C13_NoSilentOverflow ==
    ((MulOnly \/ DivOnly) /\ fa # 0 /\ fb # 0) =>
        /\ IF DifferentSigns(fa, fb) THEN fv <= 0 ELSE fv >= 0
        /\ ExactAtLeastOneUnit => fv # 0

-----------------------------------------------------------------------------
(* TFixed: integer and fractional part, floor, ceiling, rounding. *)

\* C14: for every a, a = IntegerPart(a) * 65536 + FractionalPart(a) and
\* 0 <= FractionalPart(a) < 65536, for negative values too.
C14_FloorSplit ==
    (fint.IntegerPart # <<>> /\ fint.FractionalPart # <<>>) =>
        /\ fv = fint.IntegerPart[1] * 65536 + fint.FractionalPart[1]
        /\ fint.FractionalPart[1] >= 0
        /\ fint.FractionalPart[1] < 65536

\* A negative value with a fraction, split.
C14_Witness ==
    /\ fint.IntegerPart # <<>>
    /\ fint.FractionalPart # <<>>
    /\ fv < 0
    /\ fint.FractionalPart[1] > 0
    /\ fint.IntegerPart[1] < 0

\* n * 65536 <= v and v <= n * 65536, without forming the product.
ScaledAtMost(n, v) == n <= v \div 65536

ScaledAtLeast(n, v) ==
    \/ n > v \div 65536
    \/ n = v \div 65536 /\ v % 65536 = 0

\* C15: for every a, Floor(a) * 65536 <= a <= Ceiling(a) * 65536 and
\* Floor(a) <= Rounded(a) <= Ceiling(a).
C15_FloorCeiling ==
    (fint.Floor # <<>> /\ fint.Ceiling # <<>> /\ fint.Rounded # <<>>) =>
        /\ ScaledAtMost(fint.Floor[1], fv)
        /\ ScaledAtLeast(fint.Ceiling[1], fv)
        /\ fint.Floor[1] <= fint.Rounded[1]
        /\ fint.Rounded[1] <= fint.Ceiling[1]

-----------------------------------------------------------------------------
(* TFixed: negation and addition. *)

\* v has been negated and then added to a.
MinusThenPlus == fops = <<"minus", "plus">>

\* C16: for every a, a + (-a) is 0, for the most negative raw value too.
C16_AddNegationIsZero == MinusThenPlus => fv = 0

\* The most negative value, negated and added to itself.
C16_Witness == MinusThenPlus /\ fa = MinInt32 /\ fv = 0

-----------------------------------------------------------------------------
(* TLineFixed: the cached length. *)

\* C17: a line computes its length at most once; the first Length() stores
\* the vector length of end - start, every later Length() returns the same
\* value without computing it again, and the reverse of a line has the end
\* points swapped and the same Length().
C17_LengthCachedOnce ==
    \A i \in 1 .. Len(flines) :
        LET l == flines[i]
            p == PointMinusAssign(l.iEnd, l.iStart)
        IN  /\ l.computed <= 1
            /\ \A k \in 1 .. Len(l.returned) :
                   /\ l.returned[k] = l.returned[1]
                   /\ l.returned[k] = l.iLength
                   /\ l.returned[k] = VectorLength(p[1], p[2])
            /\ l.of # 0 =>
                   /\ l.iStart = flines[l.of].iEnd
                   /\ l.iEnd = flines[l.of].iStart
                   /\ (l.returned # <<>> /\ flines[l.of].returned # <<>>) =>
                          l.returned[1] = flines[l.of].returned[1]

-----------------------------------------------------------------------------
(* CContour: reversal. *)

\* The contour c as it was after the k-th operation applied to it.
After(c, k) == IF k < Len(c.hist) THEN c.hist[k + 1] ELSE c

\* C18: for every contour, Reverse() twice leaves the same points in the
\* same order, and Reverse() leaves the closed flag unchanged.
C18_ReverseTwice ==
    \A i \in 1 .. Len(own.contours) :
        LET c == own.contours[i]
        IN  \A k \in 1 .. Len(c.hist) :
                c.hist[k].op = "Reverse" =>
                    /\ After(c, k).closed = c.hist[k].closed
                    /\ (k > 1 /\ c.hist[k - 1].op = "Reverse") =>
                           After(c, k).pts = c.hist[k - 1].pts

\* A closed contour of two different points, reversed twice.
C18_Witness ==
    /\ Len(own.contours) = 1
    /\ LET c == own.contours[1]
       IN  /\ Len(c.hist) = 2
           /\ c.hist[1].op = "Reverse"
           /\ c.hist[2].op = "Reverse"
           /\ c.closed
           /\ Len(c.pts) = 2
           /\ c.pts[1] # c.pts[2]
           /\ c.hist[2].pts # c.pts

-----------------------------------------------------------------------------
(* TContour views and the buffers they refer to. *)

SameSizeSince(v) ==
    /\ own.clears = v.clears
    /\ v.of <= Len(own.contours)
    /\ \A k \in v.at + 1 .. Len(own.contours[v.of].hist) :
           own.contours[v.of].hist[k].op = "Reverse"

-----------------------------------------------------------------------------
(* CGeneralGeometry: ConvertCoords. *)

\* The contours 1 .. n in increasing order.
UpTo(n) == [i \in 1 .. n |-> i]

\* The results before the last one returned are all KErrorNone.
AllButLastSucceeded ==
    \A k \in 1 .. Len(conv.returned) - 1 : conv.returned[k] = KErrorNone

\* C20: ConvertCoords calls the function once per contour in increasing
\* order, stops at the first call that returns an error and returns that
\* error, returns KErrorNone when every call succeeds, and returns
\* KErrorNone without a call when the geometry has the requested type.
C20_ConvertCoords ==
    conv.called =>
        IF conv.from = conv.to
        THEN conv.calls = <<>> /\ conv.ret = KErrorNone
        ELSE /\ conv.calls = UpTo(Len(conv.calls))
             /\ Len(conv.calls) <= conv.contours
             /\ AllButLastSucceeded
             /\ IF conv.ret = KErrorNone
                THEN /\ Len(conv.calls) = conv.contours
                     /\ conv.returned[conv.contours] = KErrorNone
                ELSE conv.returned[Len(conv.calls)] = conv.ret

\* A conversion of three contours that failed at the second one.
C20_Witness ==
    /\ conv.called
    /\ conv.from # conv.to
    /\ conv.contours = 3
    /\ conv.calls = <<1, 2>>
    /\ conv.returned = <<KErrorNone, 2>>
    /\ conv.ret = 2

-----------------------------------------------------------------------------
(* TTransformFP::Transform. *)

\* The transform has the coefficients of the identity.
IdentityCoefficients ==
    /\ tfm.t.iA = Fin(1) /\ tfm.t.iD = Fin(1)
    /\ tfm.t.iB = Fin(0) /\ tfm.t.iC = Fin(0)
    /\ tfm.t.iTx = Fin(0) /\ tfm.t.iTy = Fin(0)

HasTransformed == tfm.made /\ tfm.calls > 0

\* C21, as stated: Transform(x, y) leaves (A*x + C*y + Tx, B*x + D*y + Ty)
\* in x and y, both computed from the x and y passed in, and a transform
\* with the coefficients of the identity returns every point unchanged.
C21_EveryPoint ==
    HasTransformed =>
        /\ (IsFinite(tfm.before[1]) /\ IsFinite(tfm.before[2])) =>
               LET t == tfm.t
                   x == tfm.before[1].v
                   y == tfm.before[2].v
               IN  /\ tfm.aX = Fin(t.iA.v * x + t.iC.v * y + t.iTx.v)
                   /\ tfm.aY = Fin(t.iB.v * x + t.iD.v * y + t.iTy.v)
        /\ IdentityCoefficients => <<tfm.aX, tfm.aY>> = tfm.before

\* C21, for finite coordinates: Transform(x, y) leaves
\* (A*x + C*y + Tx, B*x + D*y + Ty) in x and y, both computed from the x
\* and y passed in, and a transform with the coefficients of the identity
\* returns every point of finite coordinates unchanged.
C21_FinitePoint ==
    (HasTransformed /\ IsFinite(tfm.before[1]) /\ IsFinite(tfm.before[2])) =>
        LET t == tfm.t
            x == tfm.before[1].v
            y == tfm.before[2].v
        IN  /\ tfm.aX = Fin(t.iA.v * x + t.iC.v * y + t.iTx.v)
            /\ tfm.aY = Fin(t.iB.v * x + t.iD.v * y + t.iTy.v)
            /\ IdentityCoefficients => <<tfm.aX, tfm.aY>> = tfm.before

\* A transform with a shear and a translation has moved a finite point, and
\* the new y differs from what the new x would have given.
C21_Witness ==
    /\ HasTransformed
    /\ IsFinite(tfm.before[1]) /\ IsFinite(tfm.before[2])
    /\ tfm.t.iB = Fin(1) /\ tfm.t.iC = Fin(-1) /\ tfm.t.iTx = Fin(5)
    /\ <<tfm.aX, tfm.aY>> # tfm.before
    /\ <<tfm.aX, tfm.aY>> #
           TransformedInPlace(tfm.t, tfm.before[1], tfm.before[2])

-----------------------------------------------------------------------------
(* TDataInputStream. *)

\* The last call was fn and did not go to a helper function.
Inline(fn) ==
    stream.made /\ stream.last.fn = fn /\ stream.last.inline

\* The last call consumed exactly n bytes from the cache.
ConsumedExactly(n) ==
    /\ stream.iData = PtrPlus(stream.last.before.iData, n)
    /\ stream.iDataBytes = stream.last.before.iDataBytes - n
    /\ Position(stream) = stream.last.before.Position + n

\* C25: Read(n) returns a pointer to the next n bytes, advances Position()
\* by n and reduces the number of cached bytes by n when at least n bytes
\* are cached, and otherwise returns null and leaves the read pointer, the
\* number of cached bytes and Position() unchanged; the inline paths of
\* ReadUint8, ReadUint16BigEndian, ReadUint32BigEndian and
\* ReadUint40BigEndian consume exactly 1, 2, 4 and 5 bytes and set the
\* error to 0.
C25_ReadAllOrNothing ==
    /\ Inline("Read") =>
           IF stream.last.before.iDataBytes >= stream.last.aBytes
           THEN /\ stream.last.ret = stream.last.before.iData
                /\ ConsumedExactly(stream.last.aBytes)
           ELSE /\ stream.last.ret = Nullptr
                /\ ConsumedExactly(0)
    /\ Inline("ReadUint8") =>
           ConsumedExactly(1) /\ stream.last.error = <<0>>
    /\ Inline("ReadUint16BigEndian") =>
           ConsumedExactly(2) /\ stream.last.error = <<0>>
    /\ Inline("ReadUint32BigEndian") =>
           ConsumedExactly(4) /\ stream.last.error = <<0>>
    /\ Inline("ReadUint40BigEndian") =>
           ConsumedExactly(5) /\ stream.last.error = <<0>>

\* A Read of 3 bytes was refused with 1 byte cached, 5 bytes of the buffer
\* having been consumed before.
C25_Witness ==
    /\ Inline("Read")
    /\ stream.last.aBytes = 3
    /\ stream.last.before.iDataBytes = 1
    /\ stream.last.ret = Nullptr
    /\ stream.iData = Ptr(5)
    /\ stream.iDataPosition = 4096

-----------------------------------------------------------------------------
(* CContour::AppendPoint. *)

\* The points and the flag of the contour c after the operation j of its
\* past.
AfterOp(c, j) ==
    IF j < Len(c.hist)
    THEN [pts |-> c.hist[j + 1].pts, closed |-> c.hist[j + 1].closed]
    ELSE [pts |-> c.pts, closed |-> c.closed]

\* The contour c was empty at first and only AppendPoint was called on it.
OnlyAppendedTo(c) ==
    /\ c.hist # <<>>
    /\ c.hist[1].pts = <<>>
    /\ \A j \in 1 .. Len(c.hist) : c.hist[j].op = "AppendPoint"

\* The operation j of the contour c, an AppendPoint, dropped its point.
Dropped(c, j) == AfterOp(c, j).pts # Append(c.hist[j].pts, c.hist[j].arg)

\* C23: after AppendPoint calls on a contour that was empty, no on-curve
\* point of the contour comes immediately after a point equal to it, every
\* control point passed to AppendPoint was appended, and an AppendPoint
\* that dropped its point left the points and the closed flag unchanged.
C23_AppendPoint ==
    own.alive =>
        \A i \in 1 .. Len(own.contours) :
            LET c == own.contours[i]
            IN  OnlyAppendedTo(c) =>
                    /\ \A k \in 2 .. Len(c.pts) :
                           c.pts[k].t = "OnCurve" => c.pts[k] # c.pts[k - 1]
                    /\ \A j \in 1 .. Len(c.hist) :
                           /\ c.hist[j].arg.t # "OnCurve" => ~Dropped(c, j)
                           /\ Dropped(c, j) =>
                                  /\ AfterOp(c, j).pts = c.hist[j].pts
                                  /\ AfterOp(c, j).closed = c.hist[j].closed

\* An empty closed contour was given an on-curve point, the same point
\* again, which was dropped, and a control point at the same place.
C23_Witness ==
    /\ own.alive
    /\ \E i \in 1 .. Len(own.contours) :
           LET c == own.contours[i]
           IN  /\ OnlyAppendedTo(c)
               /\ Len(c.hist) = 3
               /\ c.closed
               /\ Dropped(c, 2)
               /\ c.pts = <<OutlinePoint(-3, 1, "OnCurve"),
                            OutlinePoint(-3, 1, "Quadratic")>>

-----------------------------------------------------------------------------
(* CGeneralGeometry: the contours. *)

\* C22: IsEmpty() returns true if and only if the geometry has no point in
\* any contour.
C22_IsEmptyIffNoPoints ==
    geom.constructed => (IsEmpty <=> PointsIn(geom.m_contour_array) = 0)

\* C29: a geometry always holds at least one contour, so that contour 0,
\* which IsEmpty() and Bounds() read, and the last contour, which
\* AppendPoint() writes, exist.
C29_AtLeastOneContour ==
    geom.constructed =>
        /\ ContourCount >= 1
        /\ 1 \in DOMAIN geom.m_contour_array
        /\ ContourCount \in DOMAIN geom.m_contour_array

\* A geometry of three contours was converted to degrees and cleared
\* afterwards: it has one empty contour and map coordinates again.
C29_Witness ==
    /\ geom.constructed
    /\ conv.called
    /\ conv.contours = 3
    /\ conv.type = "Degree"
    /\ geom.m_coord_type = "Map"
    /\ geom.m_contour_array = <<<<>>>>

\* C30: when ConvertCoords returns an error, CoordType() still reports the
\* coordinate type the geometry had before the call.
C30_TypeKeptOnError ==
    (conv.called /\ conv.ret # KErrorNone) => conv.type = conv.from

-----------------------------------------------------------------------------
(* CGeneralGeometry: from a path and to a COutline. *)

\* The outline has as many contours as the path the geometry was made
\* from, each with the points of the contour of the path, in order, and
\* with the closed argument of the constructor as its closed flag.
SameAsPath ==
    LET aPath == outl.of.aPath
    IN  /\ Len(outl.contours) = Len(aPath)
        /\ \A i \in 1 .. Len(aPath) :
               /\ outl.contours[i].pts = aPath[i].pts
               /\ outl.contours[i].closed = outl.of.aClosed

\* No on-curve point of the path comes immediately after a point equal to
\* it.
NoRepeatedPoint(aPath) ==
    \A i \in 1 .. Len(aPath) :
        \A k \in 2 .. Len(aPath[i].pts) :
            aPath[i].pts[k].t = "OnCurve" =>
                aPath[i].pts[k] # aPath[i].pts[k - 1]

\* The path has a contour, and every contour of it has a point.
NoEmptyContour(aPath) ==
    /\ aPath # <<>>
    /\ \A i \in 1 .. Len(aPath) : aPath[i].pts # <<>>

\* C24, as stated: for every path, the outline made from the geometry made
\* from the path has the contours of the path, with the same points, tags
\* and order, each closed as the closed argument says.
C24_EveryPath == outl.made => SameAsPath

\* C24, for paths that have a contour, no empty contour and no on-curve
\* point repeated: the outline made from the geometry made from the path
\* has the contours of the path, with the same points, tags and order,
\* each closed as the closed argument says.
C24_PathWithoutRepeats ==
    (outl.made /\ NoEmptyContour(outl.of.aPath)
               /\ NoRepeatedPoint(outl.of.aPath)) => SameAsPath

\* A path of two contours, closed and open, with a control point, copied
\* into an open geometry and back.
C24_Witness ==
    /\ outl.made
    /\ ~outl.of.aClosed
    /\ outl.of.aPath =
           <<Contour(<<OutlinePoint(-3, 1, "OnCurve"),
                       OutlinePoint(0, 4, "Quadratic")>>, TRUE),
             Contour(<<OutlinePoint(-3, 1, "OnCurve")>>, FALSE)>>
    /\ outl.contours =
           <<Contour(<<OutlinePoint(-3, 1, "OnCurve"),
                       OutlinePoint(0, 4, "Quadratic")>>, FALSE),
             Contour(<<OutlinePoint(-3, 1, "OnCurve")>>, FALSE)>>

-----------------------------------------------------------------------------
(* TContour::Traverse: lines after curves, the end of open contours, and   *)
(* the indices read.                                                        *)

\* One step of the loops over a point that is on-curve and comes after an
\* on-curve point calls LineTo with it, and a step that calls QuadraticTo
\* uses the point just before the end point as the control point.
C26_Step ==
    (Unclipped /\ pc \in {"loop", "quad"}) =>
        /\ (/\ point >= 0
            /\ point < limit
            /\ PointAt(cur, point).t = "OnCurve"
            /\ PointAt(cur, point + 1).t = "OnCurve")
           => out' = Append(out, LineTo(Pt(PointAt(cur, point + 1))))
        /\ (Len(out') > Len(out) /\ out'[Len(out')].op = "QuadraticTo")
           => /\ v_control = point
              /\ PointAt(cur, point).t = "Quadratic"

\* C26: in unclipped traversal an on-curve point that comes after an
\* on-curve point is reached by LineTo wherever it is in the contour, also
\* after a quadratic curve, and QuadraticTo is called only for an end point
\* or implied midpoint that comes right after the control point used.
C26_LineAfterOnCurve == [][C26_Step]_vars

\* C27: the unclipped traversal of an open contour with well-formed tags
\* whose first and last points are on-curve ends at the last point: the
\* last call made ends there, and no call returning to the start follows.
C27_OpenEndsAtLast ==
    (/\ Direct /\ Unclipped /\ pc = "done" /\ Points(TheContour) >= 2
     /\ ~TheContour.closed
     /\ TheContour.pts[1].t = "OnCurve"
     /\ TheContour.pts[Points(TheContour)].t = "OnCurve"
     /\ ValidFrom(TheContour, 1))
    => /\ Len(out) = SegCount(TheContour) + 1
       /\ out[Len(out)].p = Pt(TheContour.pts[Points(TheContour)])

\* C28: in the unclipped TContour::Traverse of a contour of at least 2
\* points whose first point is not a cubic control point, every index read
\* is one of 0 .. Points() - 1, whatever the tags: the position before
\* index 0 and the positions after the last point are not read.
C28_IndicesInRange ==
    (Unclipped /\ Points(cur) >= 2 /\ PointAt(cur, 0).t # "Cubic")
    => deref \subseteq 0 .. Points(cur) - 1

\* A contour that ends with two cubic control points was traversed to the
\* position after its last point: all its points were read, and the curve
\* ends at the start point.
C28_Witness ==
    /\ Direct
    /\ Unclipped
    /\ pc = "done"
    /\ Points(TheContour) = 4
    /\ deref = 0 .. 3
    /\ point = 4
    /\ Len(out) = 3
    /\ out[3].op = "CubicTo"
====
